---- MODULE Spec2Model ----
(***************************************************************************)
(* Model of internal/extractor/extractor.go of bluemap-action: the         *)
(* strategy selector (DownloadAndExtractWorlds), the capability prober     *)
(* (probeDownload, parseContentRange), the chunk downloader               *)
(* (downloadParallel, downloadChunk) and the streaming extractor           *)
(* (extractWorlds, matchWorld).                                            *)
(*                                                                         *)
(* Strings the code inspects character by character (Content-Range         *)
(* headers, archive entry names, paths) are sequences of one-character     *)
(* strings.                                                                *)
(***************************************************************************)
EXTENDS Integers, Sequences, FiniteSets, TLC

(***************************************************************************)
(* Bounds of the model.                                                    *)
(***************************************************************************)
\* largest total size (bytes) of a download that is followed byte by byte
MaxSize == 3
\* largest number of download workers (and largest connection override)
MaxWorkers == 2
\* how many bytes more than requested a server may send on one range request
MaxExtra == 1

\* largest total size and worker count the chunk plan alone is computed for
PlanMaxSize == 12
PlanMaxWorkers == 6
\* largest number of archive entries the extractor is followed over
MaxEntries == 3
\* largest total size of a download that is followed together with the
\* progress reporter
ProgMaxSize == 2
\* largest size (bytes) of the body of the BlueMap CLI download
MaxBody == 3

(***************************************************************************)
(* Program constants.                                                      *)
(***************************************************************************)
minParallelSize == 67108864

Workers == 0 .. (MaxWorkers - 1)

Modes == {"auto", "parallel", "single"}

(***************************************************************************)
(* Character strings.                                                      *)
(***************************************************************************)
DigitChars == <<"0", "1", "2", "3", "4", "5", "6", "7", "8", "9">>

IsDigit(c) == \E i \in 1 .. 10 : DigitChars[i] = c

DigitVal(c) == (CHOOSE i \in 1 .. 10 : DigitChars[i] = c) - 1

\* decimal rendering of a natural number, as a server writes it in a header
RECURSIVE Digits(_)
Digits(n) == IF n < 10 THEN <<DigitChars[n + 1]>>
             ELSE Digits(n \div 10) \o <<DigitChars[(n % 10) + 1]>>

\* strings.LastIndex(s, c) for a one-character c, 0-based, -1 when absent
LastIndex(s, c) ==
    IF \E i \in 1 .. Len(s) : s[i] = c
    THEN (CHOOSE i \in 1 .. Len(s) : s[i] = c /\ \A j \in (i + 1) .. Len(s) : s[j] # c) - 1
    ELSE -1

\* strings.HasPrefix
HasPrefix(s, p) == Len(p) <= Len(s) /\ SubSeq(s, 1, Len(p)) = p

\* s[n:]
Drop(s, n) == SubSeq(s, n + 1, Len(s))

\* value of a digit string (Horner), most significant digit first
RECURSIVE DecValue(_)
DecValue(s) == IF s = <<>> THEN 0
               ELSE DecValue(SubSeq(s, 1, Len(s) - 1)) * 10 + DigitVal(s[Len(s)])

\* strconv.ParseInt(s, 10, 64): [ok, val]; an optional sign, then digits only
ParseInt(s) ==
    LET body == IF s # <<>> /\ s[1] \in {"+", "-"} THEN Drop(s, 1) ELSE s
        neg == s # <<>> /\ s[1] = "-"
    IN IF body = <<>> \/ \E i \in 1 .. Len(body) : ~IsDigit(body[i])
       THEN [ok |-> FALSE, val |-> 0]
       ELSE [ok |-> TRUE, val |-> IF neg THEN 0 - DecValue(body) ELSE DecValue(body)]

\* parseContentRange: [ok, total]
parseContentRange(header) ==
    LET slashIdx == LastIndex(header, "/")
        totalStr == Drop(header, slashIdx + 1)
    IN IF header = <<>> THEN [ok |-> FALSE, total |-> 0]
       ELSE IF slashIdx < 0 \/ slashIdx = Len(header) - 1 THEN [ok |-> FALSE, total |-> 0]
       ELSE IF totalStr = <<"*">> THEN [ok |-> FALSE, total |-> 0]
       ELSE IF ~ParseInt(totalStr).ok THEN [ok |-> FALSE, total |-> 0]
       ELSE [ok |-> TRUE, total |-> ParseInt(totalStr).val]


(***************************************************************************)
(* int64 sizes beyond the range of the model checker's integers: a pair    *)
(* (hi, lo) stands for hi * 2^30 + lo with 0 <= lo < 2^30.                 *)
(***************************************************************************)
GiB == 2 ^ 30

Int64(hi, lo) == [hi |-> hi, lo |-> lo]

\* a < b
Less(a, b) == a.hi < b.hi \/ (a.hi = b.hi /\ a.lo < b.lo)

\* a + 1
Succ(a) == IF a.lo = GiB - 1 THEN Int64(a.hi + 1, 0) ELSE Int64(a.hi, a.lo + 1)

\* a - 1, for a > 0
Pred(a) == IF a.lo = 0 THEN Int64(a.hi - 1, GiB - 1) ELSE Int64(a.hi, a.lo - 1)

MinOf(a, b) == IF Less(b, a) THEN b ELSE a

\* the int64 value of a number the model checker can hold
Wide(n) == Int64(n \div GiB, n % GiB)

\* n << k
Shl(n, k) == IF k >= 30 THEN Int64(n * (2 ^ (k - 30)), 0) ELSE Wide(n * (2 ^ k))

(***************************************************************************)
(* Chunk plan of downloadParallel.                                         *)
(***************************************************************************)
\* a scale whose buckets take their upper limit in
connectionCountInclusive(contentLength) ==
    IF ~Less(Shl(256, 20), contentLength) THEN 2
    ELSE IF ~Less(Shl(1, 30), contentLength) THEN 4
    ELSE IF ~Less(Shl(4, 30), contentLength) THEN 8
    ELSE 12

\* connectionCount, on an int64
connectionCount(contentLength) ==
    IF Less(contentLength, Shl(256, 20)) THEN 2
    ELSE IF Less(contentLength, Shl(1, 30)) THEN 4
    ELSE IF Less(contentLength, Shl(4, 30)) THEN 8
    ELSE 12

\* chunkSize := contentLength / int64(numWorkers)
chunkSize(S, N) == S \div N

\* start := int64(i) * chunkSize
chunkStart(S, N, i) == i * chunkSize(S, N)

\* a plan whose last worker does not take the remainder of the division
chunkEndNoRemainder(S, N, i) == chunkStart(S, N, i) + chunkSize(S, N) - 1

\* end := start + chunkSize - 1; the last worker ends at contentLength - 1
chunkEnd(S, N, i) ==
    IF i = N - 1 THEN S - 1 ELSE chunkStart(S, N, i) + chunkSize(S, N) - 1

(***************************************************************************)
(* Capability prober.                                                      *)
(***************************************************************************)
BytesPrefix == <<"b", "y", "t", "e", "s", " ", "0", "-", "0">>

\* "bytes 0-0/T"
RangeHeader(T) == BytesPrefix \o <<"/">> \o Digits(T)

\* a probe response: status 0 stands for a transport error
Response(st, cr, cl) == [status |-> st, contentRange |-> cr, contentLength |-> cl]

\* the responses a server may give to the probe, for totals drawn from sizes
ProbeResponses(sizes) ==
    {Response(0, <<>>, -1), Response(404, <<>>, -1), Response(200, <<>>, -1)}
    \cup {Response(200, <<>>, T) : T \in sizes}
    \cup {Response(206, h, -1) :
            h \in {<<>>, BytesPrefix, BytesPrefix \o <<"/">>, BytesPrefix \o <<"/", "*">>,
                   BytesPrefix \o <<"/", "0">>, BytesPrefix \o <<"/", "-", "1">>,
                   BytesPrefix \o <<"/", "1", "x">>}}
    \cup {Response(206, RangeHeader(T), 1) : T \in sizes}

\* parseContentRange has not been called
NoParse == [ok |-> FALSE, total |-> -1]

\* the three results of probeDownload
probeResult(cl, ok, e) == [cl |-> cl, rangeOK |-> ok, err |-> e]

\* a prober that hands a transport error or an unexpected status to its caller
probeDownloadFatal(resp) ==
    LET cr == parseContentRange(resp.contentRange)
    IN IF resp.status = 0 THEN probeResult(0, FALSE, "transport")
       ELSE IF resp.status = 206
            THEN IF ~cr.ok \/ cr.total <= 0 THEN probeResult(0, FALSE, "nil")
                 ELSE probeResult(cr.total, TRUE, "nil")
       ELSE IF resp.status = 200
            THEN IF resp.contentLength <= 0 THEN probeResult(0, FALSE, "nil")
                 ELSE probeResult(resp.contentLength, FALSE, "nil")
       ELSE probeResult(0, FALSE, "status")

\* a prober that takes every 206 as range support, whatever the trailer
probeDownloadRangeWithoutSize(resp) ==
    LET cr == parseContentRange(resp.contentRange)
    IN IF resp.status = 0 THEN probeResult(0, FALSE, "nil")
       ELSE IF resp.status = 206
            THEN IF ~cr.ok \/ cr.total <= 0 THEN probeResult(0, TRUE, "nil")
                 ELSE probeResult(cr.total, TRUE, "nil")
       ELSE IF resp.status = 200
            THEN IF resp.contentLength <= 0 THEN probeResult(0, FALSE, "nil")
                 ELSE probeResult(resp.contentLength, FALSE, "nil")
       ELSE probeResult(0, FALSE, "nil")

\* probeDownload: (contentLength, rangeSupported, err)
probeDownload(resp) ==
    LET cr == parseContentRange(resp.contentRange)
    IN IF resp.status = 0 THEN probeResult(0, FALSE, "nil")
       ELSE IF resp.status = 206
            THEN IF ~cr.ok \/ cr.total <= 0 THEN probeResult(0, FALSE, "nil")
                 ELSE probeResult(cr.total, TRUE, "nil")
       ELSE IF resp.status = 200
            THEN IF resp.contentLength <= 0 THEN probeResult(0, FALSE, "nil")
                 ELSE probeResult(resp.contentLength, FALSE, "nil")
       ELSE probeResult(0, FALSE, "nil")

\* what parseContentRange returns inside probeDownload: it is called on a
\* 206 response only
parsedBy(resp) == IF resp.status = 206 THEN parseContentRange(resp.contentRange) ELSE NoParse

(***************************************************************************)
(* Paths (path/filepath on a slash-separated file system).                 *)
(***************************************************************************)
\* strings.TrimPrefix
TrimPrefix(s, p) == IF HasPrefix(s, p) THEN Drop(s, Len(p)) ELSE s

\* the elements of s between slashes (empty elements included)
RECURSIVE Split(_)
Split(s) ==
    IF \A i \in 1 .. Len(s) : s[i] # "/" THEN <<s>>
    ELSE LET i == CHOOSE j \in 1 .. Len(s) : s[j] = "/" /\ \A k \in 1 .. (j - 1) : s[k] # "/"
         IN <<SubSeq(s, 1, i - 1)>> \o Split(Drop(s, i))

\* the elements put together with slashes between them
RECURSIVE JoinSegs(_)
JoinSegs(segs) ==
    IF segs = <<>> THEN <<>>
    ELSE IF Len(segs) = 1 THEN segs[1]
    ELSE segs[1] \o <<"/">> \o JoinSegs(Tail(segs))

\* filepath.Clean, the element stack: "." and empty elements are dropped, an
\* inner ".." removes the element before it, ".." at the root is dropped
RECURSIVE cleanStack(_, _, _)
cleanStack(segs, stack, rooted) ==
    IF segs = <<>> THEN stack
    ELSE LET e == Head(segs)
             rest == Tail(segs)
         IN IF e = <<>> \/ e = <<".">> THEN cleanStack(rest, stack, rooted)
            ELSE IF e = <<".", ".">>
                 THEN IF stack # <<>> /\ stack[Len(stack)] # <<".", ".">>
                      THEN cleanStack(rest, SubSeq(stack, 1, Len(stack) - 1), rooted)
                      ELSE IF rooted THEN cleanStack(rest, stack, rooted)
                      ELSE cleanStack(rest, Append(stack, e), rooted)
            ELSE cleanStack(rest, Append(stack, e), rooted)

\* filepath.Clean
Clean(path) ==
    LET rooted == path # <<>> /\ path[1] = "/"
        stack == cleanStack(Split(path), <<>>, rooted)
    IN IF rooted THEN <<"/">> \o JoinSegs(stack)
       ELSE IF stack = <<>> THEN <<".">>
       ELSE JoinSegs(stack)

\* filepath.Join of two elements
Join(dir, name) ==
    IF dir = <<>> /\ name = <<>> THEN <<>>
    ELSE IF name = <<>> THEN Clean(dir)
    ELSE IF dir = <<>> THEN Clean(name)
    ELSE Clean(dir \o <<"/">> \o name)

\* filepath.Dir
Dir(path) ==
    LET i == LastIndex(path, "/")
    IN Clean(SubSeq(path, 1, i + 1))

\* path is dir itself or lies under it (both clean)
Under(path, dir) == path = dir \/ HasPrefix(path, dir \o <<"/">>)

\* path and the directories above it, up to and without the root "/"
RECURSIVE Ancestors(_)
Ancestors(path) ==
    IF path = <<"/">> \/ path = <<".">> \/ path = <<>> THEN {}
    ELSE {path} \cup Ancestors(Dir(path))

(***************************************************************************)
(* Archive entries and destinations the extractor is run on.               *)
(***************************************************************************)
World == <<"w", "o", "r", "l", "d">>

Other == <<"o", "t", "h", "e", "r">>

Etc == <<"e", "t", "c">>

FileA == <<"a", ".", "t", "x", "t">>

FileB == <<"b", ".", "t", "x", "t">>

Up == <<".", ".">>

\* a path of the given elements
P(segs) == JoinSegs(segs)

Entry(n, t) == [name |-> n, type |-> t]

Entries ==
    { Entry(P(<<World, <<>>>>), "dir"),
      Entry(P(<<World, FileA>>), "reg"),
      Entry(P(<<Other, FileB>>), "reg"),
      Entry(P(<<World, Up, Up, Etc, FileB>>), "reg"),
      Entry(P(<<World, Up, Up, Etc>>), "dir"),
      Entry(P(<<<<".">>, World, FileA>>), "reg"),
      Entry(P(<<World, Up, Other, FileB>>), "reg"),
      Entry(P(<<World, Up>>), "dir"),
      Entry(P(<<World, FileA>>), "symlink") }

\* destination roots: absolute and clean, as config.Load makes them
Roots == { <<"/", "r", "/", "s">> }

WorldSets == { {World}, {World, Other} }

(***************************************************************************)
(* Size limit of writeFile.                                                *)
(***************************************************************************)
\* const limit = 10 << 30 of writeFile
limit == Shl(10, 30)

(***************************************************************************)
(* Streaming extractor: extractWorlds, matchWorld.                         *)
(***************************************************************************)
\* a matcher that takes every path beginning with a filter name
matchingWorldsByPrefix(entryPath, worldSet) ==
    LET clean == TrimPrefix(entryPath, <<".", "/">>)
    IN {w \in worldSet : HasPrefix(clean, w)}

\* the filter names that matchWorld's loop accepts for an entry path
matchingWorlds(entryPath, worldSet) ==
    LET clean == TrimPrefix(entryPath, <<".", "/">>)
    IN {w \in worldSet : clean = w \/ clean = w \o <<"/">> \/ HasPrefix(clean, w \o <<"/">>)}

\* a matcher that gives up when the name it looks at first does not match
matchWorldFirstOnly(entryPath, worldSet) ==
    IF matchingWorlds(entryPath, worldSet) = {} THEN {<<>>}
    ELSE matchingWorlds(entryPath, worldSet)
         \cup (IF matchingWorlds(entryPath, worldSet) # worldSet THEN {<<>>} ELSE {})

\* matchWorld: the values it can return; the map is ranged over in any order
matchWorld(entryPath, worldSet) ==
    IF matchingWorlds(entryPath, worldSet) = {} THEN {<<>>}
    ELSE matchingWorlds(entryPath, worldSet)

\* targetPath := filepath.Join(outputDir, header.Name)
targetPath(outDir, name) == Join(outDir, name)

\* an extractor without the path-traversal check
insideRootUnchecked(outDir, target) == TRUE

\* the path-traversal check: true when the entry is kept
insideRoot(outDir, target) == HasPrefix(Clean(target), Clean(outDir) \o <<"/">>)

\* the kind of path p in a file system that holds the created entries and,
\* as directories, the destination root and everything above it
kindOf(files, outDir, p) ==
    IF \E f \in files : f.path = p THEN (CHOOSE f \in files : f.path = p).kind
    ELSE IF Under(outDir, p) \/ p = <<"/">> THEN "dir"
    ELSE "none"

\* os.MkdirAll: [ok, files]; fails when p or a directory above it is a file
MkdirAll(files, outDir, p) ==
    IF \E a \in Ancestors(p) : kindOf(files, outDir, a) = "file"
    THEN [ok |-> FALSE, files |-> files]
    ELSE [ok |-> TRUE,
          files |-> files \cup {[path |-> a, kind |-> "dir"] :
                                   a \in {b \in Ancestors(p) : kindOf(files, outDir, b) = "none"}}]

\* a copy that reads no further than the limit itself
limitedCopyAtLimit(size) == MinOf(size, limit)

\* n of io.Copy(f, io.LimitReader(r, limit+1)) for an entry of `size` bytes
limitedCopy(size) == MinOf(size, Succ(limit))

\* n > limit
overLimit(n) == Less(limit, n)

\* writeFile: [err, files, opened, n]. os.OpenFile fails on a directory and
\* creates or truncates the file otherwise; a failed copy (io) leaves the
\* file behind with a part of the bytes (n is not followed then, it is 0);
\* n is the number of bytes copied
writeFile(files, outDir, p, size, io) ==
    LET n == limitedCopy(size)
        created == files \cup {[path |-> p, kind |-> "file"]}
    IN IF kindOf(files, outDir, p) = "dir"
       THEN [err |-> "open", files |-> files, opened |-> FALSE, n |-> Int64(0, 0)]
       ELSE IF io THEN [err |-> "copy", files |-> created, opened |-> TRUE, n |-> Int64(0, 0)]
       ELSE IF overLimit(n) THEN [err |-> "limit", files |-> created, opened |-> TRUE, n |-> n]
       ELSE [err |-> "nil", files |-> created, opened |-> TRUE, n |-> n]

\* the errors extractWorlds returns from the body of its loop
ErrMkdir == "creating directory"

ErrParent == "creating parent directory"

ErrWrite == "writing file"

ErrLimit == "writing file: file exceeds maximum allowed size"

\* a loop body that counts a created directory as an extracted file
extractEntryCountsDirs(files, outDir, e, m, io) ==
    LET target == targetPath(outDir, e.name)
        md == MkdirAll(files, outDir, target)
        mp == MkdirAll(files, outDir, Dir(target))
        wf == writeFile(mp.files, outDir, target, e.size, io = "write")
        skip == [err |-> "nil", files |-> files, counted |-> FALSE, opened |-> FALSE,
                 n |-> Int64(0, 0)]
    IN IF m = <<>> THEN skip
       ELSE IF ~insideRoot(outDir, target) THEN skip
       ELSE IF e.type = "dir"
            THEN IF md.ok /\ io # "mkdir" THEN [skip EXCEPT !.files = md.files, !.counted = TRUE]
                 ELSE [skip EXCEPT !.err = ErrMkdir]
       ELSE IF e.type = "reg"
            THEN IF ~mp.ok \/ io = "mkdir" THEN [skip EXCEPT !.err = ErrParent]
                 ELSE [err |-> CASE wf.err = "nil" -> "nil"
                                 [] wf.err = "limit" -> ErrLimit
                                 [] OTHER -> ErrWrite,
                       files |-> wf.files, counted |-> wf.err = "nil",
                       opened |-> wf.opened, n |-> wf.n]
       ELSE skip

\* a loop body that writes every entry that is not a directory as a file
extractEntryWritesOthers(files, outDir, e, m, io) ==
    LET target == targetPath(outDir, e.name)
        md == MkdirAll(files, outDir, target)
        mp == MkdirAll(files, outDir, Dir(target))
        wf == writeFile(mp.files, outDir, target, e.size, io = "write")
        skip == [err |-> "nil", files |-> files, counted |-> FALSE, opened |-> FALSE,
                 n |-> Int64(0, 0)]
    IN IF m = <<>> THEN skip
       ELSE IF ~insideRoot(outDir, target) THEN skip
       ELSE IF e.type = "dir"
            THEN IF md.ok /\ io # "mkdir" THEN [skip EXCEPT !.files = md.files]
                 ELSE [skip EXCEPT !.err = ErrMkdir]
       ELSE IF ~mp.ok \/ io = "mkdir" THEN [skip EXCEPT !.err = ErrParent]
            ELSE [err |-> CASE wf.err = "nil" -> "nil"
                            [] wf.err = "limit" -> ErrLimit
                            [] OTHER -> ErrWrite,
                  files |-> wf.files, counted |-> wf.err = "nil",
                  opened |-> wf.opened, n |-> wf.n]

\* the body of the loop of extractWorlds for one header e that matchWorld has
\* matched to m; io names the call the operating system fails, if any:
\* [err, files, counted, opened, n]
extractEntry(files, outDir, e, m, io) ==
    LET target == targetPath(outDir, e.name)
        md == MkdirAll(files, outDir, target)
        mp == MkdirAll(files, outDir, Dir(target))
        wf == writeFile(mp.files, outDir, target, e.size, io = "write")
        skip == [err |-> "nil", files |-> files, counted |-> FALSE, opened |-> FALSE,
                 n |-> Int64(0, 0)]
    IN IF m = <<>> THEN skip
       ELSE IF ~insideRoot(outDir, target) THEN skip
       ELSE IF e.type = "dir"
            THEN IF md.ok /\ io # "mkdir" THEN [skip EXCEPT !.files = md.files]
                 ELSE [skip EXCEPT !.err = ErrMkdir]
       ELSE IF e.type = "reg"
            THEN IF ~mp.ok \/ io = "mkdir" THEN [skip EXCEPT !.err = ErrParent]
                 ELSE [err |-> CASE wf.err = "nil" -> "nil"
                                 [] wf.err = "limit" -> ErrLimit
                                 [] OTHER -> ErrWrite,
                       files |-> wf.files, counted |-> wf.err = "nil",
                       opened |-> wf.opened, n |-> wf.n]
       ELSE skip

(***************************************************************************)
(* State.                                                                  *)
(***************************************************************************)
VARIABLES
    mode,           \* opts.Mode
    connOverride,   \* opts.Connections
    serverTotal,    \* size of the resource on the server
    pc,             \* position of the calling goroutine
    probeResp,      \* the response the probe got
    contentLength,  \* contentLength as returned by probeDownload
    rangeOK,        \* rangeSupported as returned by probeDownload
    numWorkers,     \* numWorkers handed to parallelDownloadAndExtract
    path,           \* strategy dispatched to: "none", "parallel", "single"
    result,         \* what DownloadAndExtractWorlds returned ("none" while running)
    tmpExists,      \* the temp archive exists in outputDir
    tmpHandle,      \* "none", "rw" (CreateTemp), "closed", "ro" (os.Open)
    fileLen,        \* length of the temp file
    defers,         \* deferred calls of parallelDownloadAndExtract, last first
    spawned,        \* loop variable i of downloadParallel
    plan,           \* the (start, end) handed to each worker started so far
    wpc,            \* position of each worker goroutine
    offset,         \* downloadChunk's offset
    wrote,          \* bytes of the file each worker has written, from its start
    wErr,           \* the error downloadChunk returned to each worker
    firstErr,       \* firstErr of downloadParallel
    downloaded,     \* the atomic progress counter
    requests,       \* number of range requests issued by workers
    outputDir,      \* destination root of extractWorlds
    worlds,         \* the filter set
    archive,        \* the headers tr.Next() has returned so far
    files,          \* paths extractWorlds has created, with their kind
    extracted,      \* the tally: files written per filter name
    entrySizes,     \* the size of the data of each header in archive
    data,           \* for each file written: the header it holds the data of, and how many bytes
    warnings,       \* the filter names reported as not found
    exState,        \* "idle", "start", "walking", "done", "failed"
    exErr,          \* the error extractWorlds returned
    cfg,            \* the ServerConfig decoded from config.toml
    parsed,         \* what parseContentRange returned to probeDownload
    probeErr,       \* the error result of probeDownload
    reporter,       \* the progress reporter goroutine: "none", "running", "stopped"
    progressDone,   \* the channel progressDone has been closed
    got,            \* the value the reporter loaded last from the counter (-1: none yet)
    cliPc,          \* position of EnsureCLI
    cliResult,      \* the error EnsureCLI returned ("none" while running)
    jarWas,         \* the file at jarPath when EnsureCLI was called
    jarFile,        \* the file at jarPath
    tmpJar,         \* the file at jarPath + ".tmp"
    body,           \* length of the body of the download response
    copied          \* bytes io.Copy has written to the temp file

pvars == <<mode, connOverride, serverTotal, pc, probeResp, contentLength, rangeOK,
           numWorkers, path, result>>

fvars == <<tmpExists, tmpHandle, fileLen, defers>>

dvars == <<spawned, plan, wpc, offset, wrote, wErr, firstErr, downloaded, requests>>

evars == <<outputDir, worlds, archive, files, extracted, entrySizes, data, warnings,
           exState, exErr>>

cvars == <<cfg, parsed, probeErr>>

rvars == <<reporter, progressDone, got>>

jvars == <<cliPc, cliResult, jarWas, jarFile, tmpJar, body, copied>>

vars == <<pvars, fvars, dvars, evars, cvars, rvars, jvars>>

NoResp == Response(-1, <<>>, -1)

NoErr == [worker |-> -1, kind |-> "nil"]

(***************************************************************************)
(* Configuration: ServerConfig, Load.                                      *)
(***************************************************************************)
\* largest download_connections that Load accepts
MaxConnections == 32

ServerConfig(id, type, world, mc, bm, m, c) ==
    [server_id |-> id, server_type |-> type, world_name |-> world, mc_version |-> mc,
     bluemap_version |-> bm, download_mode |-> m, download_connections |-> c]

\* a configuration whose other fields are in order
Config(m, c) == ServerConfig("srv", "vanilla", "world", "1.21", "5.4", m, c)

\* the configurations a config.toml may decode to
Configs ==
    { ServerConfig(id, type, world, mc, bm, m, c) :
        id \in {"", "srv"}, type \in {"", "vanilla", "plugin", "forge"},
        world \in {"", "world"}, mc \in {"", "1.21"}, bm \in {"", "5.4"},
        m \in {"", "auto", "parallel", "single", "fast", "Auto"},
        c \in {-1, 0, 1, 2, MaxConnections, MaxConnections + 1} }

\* a validation that lets every non-negative connection count pass
loadErrorNoUpperLimit(c) ==
    IF c.server_id = "" THEN "server_id is required"
    ELSE IF c.server_type = "" THEN "server_type is required"
    ELSE IF c.server_type # "vanilla" /\ c.server_type # "plugin" THEN "server_type must be"
    ELSE IF c.world_name = "" THEN "world_name is required"
    ELSE IF c.mc_version = "" THEN "mc_version is required"
    ELSE IF c.bluemap_version = "" THEN "bluemap_version is required"
    ELSE IF c.download_mode # "" /\ c.download_mode # "auto" /\ c.download_mode # "parallel"
            /\ c.download_mode # "single" THEN "download_mode must be"
    ELSE IF c.download_connections < 0 THEN "download_connections must be"
    ELSE "nil"

\* Load: the checks on the decoded configuration, "nil" when all pass
loadError(c) ==
    IF c.server_id = "" THEN "server_id is required"
    ELSE IF c.server_type = "" THEN "server_type is required"
    ELSE IF c.server_type # "vanilla" /\ c.server_type # "plugin" THEN "server_type must be"
    ELSE IF c.world_name = "" THEN "world_name is required"
    ELSE IF c.mc_version = "" THEN "mc_version is required"
    ELSE IF c.bluemap_version = "" THEN "bluemap_version is required"
    ELSE IF c.download_mode # "" /\ c.download_mode # "auto" /\ c.download_mode # "parallel"
            /\ c.download_mode # "single" THEN "download_mode must be"
    ELSE IF c.download_connections < 0 \/ c.download_connections > MaxConnections
         THEN "download_connections must be"
    ELSE "nil"

ResolveDownloadMode(c) == IF c.download_mode = "" THEN "auto" ELSE c.download_mode

ResolveDownloadConnections(c) == c.download_connections

\* the DownloadOptions the caller makes of a loaded configuration
Options(c) == [Mode |-> ResolveDownloadMode(c), Connections |-> ResolveDownloadConnections(c)]

\* no worker of the set ws has been started
InitWorkers(ws) ==
    /\ spawned = 0
    /\ plan = <<>>
    /\ wpc = [w \in ws |-> "idle"]
    /\ offset = [w \in ws |-> 0]
    /\ wrote = [w \in ws |-> 0]
    /\ wErr = [w \in ws |-> "nil"]
    /\ firstErr = NoErr
    /\ downloaded = 0
    /\ requests = 0

\* no progress reporter has been started
InitReporter ==
    /\ reporter = "none"
    /\ progressDone = FALSE
    /\ got = -1

\* no file: neither a jar nor a temp file
NoFile == [size |-> -1, source |-> "none"]

\* EnsureCLI is not called
InitCLIIdle ==
    /\ cliPc = "idle"
    /\ cliResult = "none"
    /\ jarWas = NoFile
    /\ jarFile = NoFile
    /\ tmpJar = NoFile
    /\ body = 0
    /\ copied = 0

\* the options and the server of a call that has not probed yet
InitOptions(sizes) ==
    /\ mode \in Modes
    /\ connOverride \in 0 .. MaxWorkers
    /\ serverTotal \in sizes
    /\ probeResp = NoResp
    /\ contentLength = 0
    /\ rangeOK = FALSE
    /\ numWorkers = 0
    /\ path = "none"
    /\ result = "none"
    /\ tmpExists = FALSE
    /\ tmpHandle = "none"
    /\ fileLen = 0
    /\ defers = <<>>
    /\ InitWorkers(Workers)
    /\ InitReporter
    /\ cfg = Config(mode, connOverride)
    /\ parsed = NoParse
    /\ probeErr = "none"

\* the download has not started
InitDownload(sizes) == pc = "start" /\ InitOptions(sizes) /\ InitCLIIdle

\* extractWorlds has not been called
InitExtractIdle ==
    /\ outputDir \in Roots
    /\ worlds = {}
    /\ archive = <<>>
    /\ files = {}
    /\ extracted = <<>>
    /\ entrySizes = <<>>
    /\ data = {}
    /\ warnings = {}
    /\ exState = "idle"
    /\ exErr = "nil"

Init == InitDownload(1 .. MaxSize) /\ InitExtractIdle

(***************************************************************************)
(* Strategy selector.                                                      *)
(***************************************************************************)
\* a switch that lets single mode fall through to the default case
DownloadAndExtractWorldsSingleProbes ==
    /\ pc = "start"
    /\ pc' = CASE mode = "parallel" -> "downloadParallelExtract"
               [] OTHER -> "downloadAutoExtract"
    /\ path' = path
    /\ UNCHANGED <<mode, connOverride, serverTotal, probeResp, contentLength, rangeOK,
                   numWorkers, result, fvars, dvars, evars, cvars,
                   rvars, jvars>>

\* DownloadAndExtractWorlds: the switch on opts.Mode
DownloadAndExtractWorlds ==
    /\ pc = "start"
    /\ pc' = CASE mode = "parallel" -> "downloadParallelExtract"
               [] mode = "single" -> "downloadStreamExtract"
               [] OTHER -> "downloadAutoExtract"
    /\ path' = IF mode = "single" THEN "single" ELSE path
    /\ UNCHANGED <<mode, connOverride, serverTotal, probeResp, contentLength, rangeOK,
                   numWorkers, result, fvars, dvars, evars, cvars,
                   rvars, jvars>>

\* numWorkers := connectionCount(contentLength); the override when > 0
\* (contentLength as an int64)
workerCount(cl, override) == IF override > 0 THEN override ELSE connectionCount(cl)

\* a threshold that leaves out a file of exactly the minimum size
autoParallelAbove(p) == p.rangeOK /\ p.cl > minParallelSize

\* rangeOK && contentLength >= minParallelSize
autoParallel(p) == p.rangeOK /\ p.cl >= minParallelSize

\* downloadAutoExtract, up to the call of the chosen strategy
downloadAutoExtract ==
    /\ pc = "downloadAutoExtract"
    /\ \E resp \in ProbeResponses({serverTotal}) :
         LET p == probeDownload(resp)
         IN /\ probeResp' = resp
            /\ contentLength' = p.cl
            /\ rangeOK' = p.rangeOK
            /\ probeErr' = p.err
            /\ parsed' = parsedBy(resp)
            /\ IF p.err # "nil"
               THEN /\ result' = "err:probing download URL"
                    /\ pc' = "returned"
                    /\ UNCHANGED <<numWorkers, path>>
               ELSE IF autoParallel(p)
               THEN /\ numWorkers' = workerCount(Wide(p.cl), connOverride)
                    /\ path' = "parallel"
                    /\ pc' = "parallelDownloadAndExtract"
                    /\ result' = result
               ELSE /\ numWorkers' = numWorkers
                    /\ path' = "single"
                    /\ pc' = "downloadStreamExtract"
                    /\ result' = result
    /\ UNCHANGED <<mode, connOverride, serverTotal, fvars, dvars, evars, cfg,
                   rvars, jvars>>

\* a precondition that forgets the range check
parallelPreconditionSizeOnly(p) == IF p.cl <= 0 THEN "err:no-content-length" ELSE "nil"

\* the precondition errors of downloadParallelExtract, "nil" when there is none
parallelPrecondition(p) ==
    IF ~p.rangeOK THEN "err:no-range"
    ELSE IF p.cl <= 0 THEN "err:no-content-length"
    ELSE "nil"

\* downloadParallelExtract, up to the call of parallelDownloadAndExtract
downloadParallelExtract ==
    /\ pc = "downloadParallelExtract"
    /\ \E resp \in ProbeResponses({serverTotal}) :
         LET p == probeDownload(resp)
         IN /\ probeResp' = resp
            /\ contentLength' = p.cl
            /\ rangeOK' = p.rangeOK
            /\ probeErr' = p.err
            /\ parsed' = parsedBy(resp)
            /\ IF p.err # "nil"
               THEN /\ result' = "err:probing download URL"
                    /\ pc' = "returned"
                    /\ UNCHANGED <<numWorkers, path>>
               ELSE IF parallelPrecondition(p) # "nil"
               THEN /\ result' = parallelPrecondition(p)
                    /\ pc' = "returned"
                    /\ UNCHANGED <<numWorkers, path>>
               ELSE /\ numWorkers' = workerCount(Wide(p.cl), connOverride)
                    /\ path' = "parallel"
                    /\ pc' = "parallelDownloadAndExtract"
                    /\ result' = result
    /\ UNCHANGED <<mode, connOverride, serverTotal, fvars, dvars, evars, cfg,
                   rvars, jvars>>

(***************************************************************************)
(* parallelDownloadAndExtract: temp file, download, reopen, extract.       *)
(***************************************************************************)
\* os.CreateTemp and defer os.Remove(tmpPath)
CreateTemp ==
    /\ pc = "parallelDownloadAndExtract"
    /\ \/ /\ tmpExists' = TRUE
          /\ tmpHandle' = "rw"
          /\ defers' = <<"remove">>
          /\ pc' = "downloadParallel"
          /\ result' = result
       \/ /\ result' = "err:creating temp file"
          /\ pc' = "returned"
          /\ UNCHANGED <<tmpExists, tmpHandle, defers>>
    /\ UNCHANGED <<mode, connOverride, serverTotal, probeResp, contentLength, rangeOK,
                   numWorkers, path, fileLen, dvars, evars, cvars,
                   rvars, jvars>>

\* downloadParallel: f.Truncate(contentLength) and, when it succeeds, the
\* start of the progress reporter goroutine
Truncate ==
    /\ pc = "downloadParallel"
    /\ \/ /\ fileLen' = contentLength
          /\ reporter' = "running"
          /\ pc' = "spawn"
       \/ /\ fileLen' = fileLen
          /\ reporter' = reporter
          /\ pc' = "downloadFailed"
    /\ UNCHANGED <<mode, connOverride, serverTotal, probeResp, contentLength, rangeOK,
                   numWorkers, path, result, tmpExists, tmpHandle, defers, dvars, evars, cvars,
                   progressDone, got, jvars>>

\* the range handed to worker w
wStart(w) == plan[w + 1].start

wEnd(w) == plan[w + 1].end

\* number of bytes the range of worker w asks for
wLen(w) == IF wEnd(w) < wStart(w) THEN 0 ELSE wEnd(w) - wStart(w) + 1

\* downloadParallel: one iteration of the loop that starts the workers
Spawn ==
    /\ pc = "spawn"
    /\ spawned < numWorkers
    /\ plan' = Append(plan, [start |-> chunkStart(contentLength, numWorkers, spawned),
                             end |-> chunkEnd(contentLength, numWorkers, spawned)])
    /\ wpc' = [wpc EXCEPT ![spawned] = "request"]
    /\ spawned' = spawned + 1
    /\ UNCHANGED <<pvars, fvars, offset, wrote, wErr, firstErr, downloaded, requests, evars, cvars,
                   rvars, jvars>>

\* downloadChunk: the range request and the status check
Request(w) ==
    /\ wpc[w] = "request"
    /\ requests' = requests + 1
    /\ \/ /\ wErr' = [wErr EXCEPT ![w] = "transport"]
          /\ wpc' = [wpc EXCEPT ![w] = "record"]
          /\ offset' = offset
       \/ /\ wErr' = [wErr EXCEPT ![w] = "status"]
          /\ wpc' = [wpc EXCEPT ![w] = "record"]
          /\ offset' = offset
       \/ /\ offset' = [offset EXCEPT ![w] = wStart(w)]
          /\ wpc' = [wpc EXCEPT ![w] = "read"]
          /\ wErr' = wErr
    /\ UNCHANGED <<pvars, fvars, spawned, plan, wrote, firstErr, downloaded, evars, cvars,
                   rvars, jvars>>

\* the file length after a write of n bytes at offset off
lenAfterWrite(len, off, n) == IF n > 0 /\ off + n > len THEN off + n ELSE len

\* an offset taken from the shared counter of bytes written
writeOffsetFromCounter(w) == wStart(w) + downloaded

\* the offset downloadChunk writes the next bytes at
writeOffset(w) == offset[w]

\* downloadChunk: one iteration of the read loop. The body delivers n bytes
\* together with readErr e; WriteAt stores them (ok) or fails after k bytes.
\* A body is at most MaxExtra bytes longer than the range asked for. The
\* local offset is set back to 0 when downloadChunk returns.
Read(w) ==
    /\ wpc[w] = "read"
    /\ \E n \in 0 .. (wLen(w) + MaxExtra - (offset[w] - wStart(w))), e \in {"nil", "EOF", "err"} :
         /\ n > 0 \/ e # "nil"
         /\ \/ /\ n > 0
               /\ \E k \in 0 .. (n - 1) :
                    /\ wrote' = [wrote EXCEPT ![w] = (writeOffset(w) - wStart(w)) + k]
                    /\ fileLen' = lenAfterWrite(fileLen, writeOffset(w), k)
               /\ wErr' = [wErr EXCEPT ![w] = "write"]
               /\ wpc' = [wpc EXCEPT ![w] = "record"]
               /\ offset' = [offset EXCEPT ![w] = 0]
               /\ downloaded' = downloaded
            \/ /\ wrote' = [wrote EXCEPT ![w] = (writeOffset(w) - wStart(w)) + n]
               /\ fileLen' = lenAfterWrite(fileLen, writeOffset(w), n)
               /\ downloaded' = downloaded + n
               /\ offset' = [offset EXCEPT ![w] = IF e = "nil" THEN offset[w] + n ELSE 0]
               /\ wErr' = [wErr EXCEPT ![w] = IF e = "err" THEN "read" ELSE "nil"]
               /\ wpc' = [wpc EXCEPT ![w] =
                            CASE e = "nil" -> "read" [] e = "EOF" -> "done" [] OTHER -> "record"]
    /\ UNCHANGED <<pvars, tmpExists, tmpHandle, defers, spawned, plan, firstErr, requests, evars, cvars,
                   rvars, jvars>>

\* a worker that stores its error whether or not one is stored already
RecordLatest(w) ==
    /\ wpc[w] = "record"
    /\ firstErr' = [worker |-> w, kind |-> wErr[w]]
    /\ wpc' = [wpc EXCEPT ![w] = "done"]
    /\ UNCHANGED <<pvars, fvars, spawned, plan, offset, wrote, wErr, downloaded, requests, evars, cvars,
                   rvars, jvars>>

\* the worker goroutine after a failed downloadChunk: firstErr under the mutex
Record(w) ==
    /\ wpc[w] = "record"
    /\ firstErr' = IF firstErr = NoErr THEN [worker |-> w, kind |-> wErr[w]] ELSE firstErr
    /\ wpc' = [wpc EXCEPT ![w] = "done"]
    /\ UNCHANGED <<pvars, fvars, spawned, plan, offset, wrote, wErr, downloaded, requests, evars, cvars,
                   rvars, jvars>>

\* a return that does not wait for the workers
WaitReturnEarly ==
    /\ pc = "spawn"
    /\ spawned = numWorkers
    /\ pc' = IF firstErr = NoErr THEN "closeTemp" ELSE "downloadFailed"
    /\ progressDone' = TRUE
    /\ UNCHANGED <<mode, connOverride, serverTotal, probeResp, contentLength, rangeOK,
                   numWorkers, path, result, fvars, dvars, evars, cvars, reporter, got, jvars>>

\* a return that leaves progressDone open
WaitReturnLeavesOpen ==
    /\ pc = "spawn"
    /\ spawned = numWorkers
    /\ \A w \in DOMAIN wpc : w < numWorkers => wpc[w] = "done"
    /\ pc' = IF firstErr = NoErr THEN "closeTemp" ELSE "downloadFailed"
    /\ UNCHANGED <<mode, connOverride, serverTotal, probeResp, contentLength, rangeOK,
                   numWorkers, path, result, fvars, dvars, evars, cvars, rvars, jvars>>

\* wg.Wait() and return firstErr; the deferred close(progressDone) runs
WaitReturn ==
    /\ pc = "spawn"
    /\ spawned = numWorkers
    /\ \A w \in DOMAIN wpc : w < numWorkers => wpc[w] = "done"
    /\ pc' = IF firstErr = NoErr THEN "closeTemp" ELSE "downloadFailed"
    /\ progressDone' = TRUE
    /\ UNCHANGED <<mode, connOverride, serverTotal, probeResp, contentLength, rangeOK,
                   numWorkers, path, result, fvars, dvars, evars, cvars, reporter, got, jvars>>

\* an error return that leaves without running the deferred calls
DownloadFailedNoCleanup ==
    /\ pc = "downloadFailed"
    /\ tmpHandle' = "closed"
    /\ result' = "err:parallel download"
    /\ pc' = "returned"
    /\ UNCHANGED <<mode, connOverride, serverTotal, probeResp, contentLength, rangeOK,
                   numWorkers, path, tmpExists, fileLen, defers, dvars, evars, cvars,
                   rvars, jvars>>

\* an error of the download that is answered with a single-stream download
DownloadFailedFallsBack ==
    /\ pc = "downloadFailed"
    /\ tmpHandle' = "closed"
    /\ path' = "single"
    /\ pc' = "downloadStreamExtract"
    /\ UNCHANGED <<mode, connOverride, serverTotal, probeResp, contentLength, rangeOK,
                   numWorkers, result, tmpExists, fileLen, defers, dvars, evars, cvars,
                   rvars, jvars>>

\* downloadParallel returned an error: tmpFile.Close() and return
DownloadFailed ==
    /\ pc = "downloadFailed"
    /\ tmpHandle' = "closed"
    /\ result' = "err:parallel download"
    /\ pc' = "unwind"
    /\ UNCHANGED <<mode, connOverride, serverTotal, probeResp, contentLength, rangeOK,
                   numWorkers, path, tmpExists, fileLen, defers, dvars, evars, cvars,
                   rvars, jvars>>

\* tmpFile.Close()
CloseTemp ==
    /\ pc = "closeTemp"
    /\ tmpHandle' = "closed"
    /\ \/ /\ pc' = "reopen"
          /\ result' = result
       \/ /\ pc' = "unwind"
          /\ result' = "err:closing temp file"
    /\ UNCHANGED <<mode, connOverride, serverTotal, probeResp, contentLength, rangeOK,
                   numWorkers, path, tmpExists, fileLen, defers, dvars, evars, cvars,
                   rvars, jvars>>

\* os.Open(tmpPath) and defer f.Close()
Reopen ==
    /\ pc = "reopen"
    /\ \/ /\ tmpHandle' = "ro"
          /\ defers' = <<"close">> \o defers
          /\ pc' = "extract"
          /\ result' = result
       \/ /\ result' = "err:opening downloaded archive"
          /\ pc' = "unwind"
          /\ UNCHANGED <<tmpHandle, defers>>
    /\ UNCHANGED <<mode, connOverride, serverTotal, probeResp, contentLength, rangeOK,
                   numWorkers, path, tmpExists, fileLen, dvars, evars, cvars,
                   rvars, jvars>>

\* return extractWorlds(f, outputDir, worlds)
ExtractFile ==
    /\ pc = "extract"
    /\ result' \in {"nil", "err:extract"}
    /\ pc' = "unwind"
    /\ UNCHANGED <<mode, connOverride, serverTotal, probeResp, contentLength, rangeOK,
                   numWorkers, path, fvars, dvars, evars, cvars,
                   rvars, jvars>>

\* the effect of one deferred call on the temp file: [exists, handle]
runDeferred(d, exists, handle) ==
    IF d = "remove" THEN [exists |-> FALSE, handle |-> handle]
    ELSE [exists |-> exists, handle |-> "closed"]

\* the deferred calls of parallelDownloadAndExtract run, last registered first
Unwind ==
    /\ pc = "unwind"
    /\ IF defers = <<>>
       THEN /\ pc' = "returned"
            /\ UNCHANGED <<tmpExists, tmpHandle, defers>>
       ELSE /\ tmpExists' = runDeferred(Head(defers), tmpExists, tmpHandle).exists
            /\ tmpHandle' = runDeferred(Head(defers), tmpExists, tmpHandle).handle
            /\ defers' = Tail(defers)
            /\ pc' = pc
    /\ UNCHANGED <<mode, connOverride, serverTotal, probeResp, contentLength, rangeOK,
                   numWorkers, path, result, fileLen, dvars, evars, cvars,
                   rvars, jvars>>

(***************************************************************************)
(* downloadStreamExtract.                                                  *)
(***************************************************************************)
\* a single download that stores the archive in a temp file before extracting
downloadStreamExtractViaTemp ==
    /\ pc = "downloadStreamExtract"
    /\ result' \in {"err:get", "err:status", "nil", "err:extract"}
    /\ tmpExists' = (result' \in {"nil", "err:extract"})
    /\ pc' = "returned"
    /\ UNCHANGED <<mode, connOverride, serverTotal, probeResp, contentLength, rangeOK,
                   numWorkers, path, tmpHandle, fileLen, defers, dvars, evars, cvars,
                   rvars, jvars>>

\* downloadStreamExtract: client.Get, the status check and extractWorlds on
\* the response body
downloadStreamExtract ==
    /\ pc = "downloadStreamExtract"
    /\ result' \in {"err:get", "err:status", "nil", "err:extract"}
    /\ pc' = "returned"
    /\ UNCHANGED <<mode, connOverride, serverTotal, probeResp, contentLength, rangeOK,
                   numWorkers, path, fvars, dvars, evars, cvars,
                   rvars, jvars>>

(***************************************************************************)
(* extractWorlds, one archive entry at a time.                             *)
(***************************************************************************)
\* gzip.NewReader
GzipOpen ==
    /\ exState = "start"
    /\ \/ /\ exState' = "walking"
          /\ exErr' = exErr
       \/ /\ exState' = "failed"
          /\ exErr' = "creating gzip reader"
    /\ UNCHANGED <<pvars, fvars, dvars, cvars, outputDir, worlds, archive, files, extracted,
                   entrySizes, data, warnings, rvars, jvars>>

\* the sizes the data of header e may have, out of the sizes Z of file bodies
sizeChoices(e, Z) == IF e.type = "reg" THEN Z ELSE {Int64(0, 0)}

\* the contents of the written files after writeFile has opened path p for the
\* i-th header and copied n bytes
putData(d, p, i, n) == {x \in d : x.path # p} \cup {[path |-> p, entry |-> i, n |-> n]}

\* a loop that notes the error of an entry and goes on to the next header
WalkEntryGoesOn(E, Z) ==
    /\ exState = "walking"
    /\ Len(archive) < MaxEntries
    /\ \E e \in E, io \in {"none", "mkdir", "write"} :
         \E sz \in sizeChoices(e, Z), m \in matchWorld(e.name, worlds) :
           LET h == [name |-> e.name, type |-> e.type, size |-> sz]
               r == extractEntry(files, outputDir, h, m, io)
           IN /\ archive' = Append(archive, e)
              /\ entrySizes' = Append(entrySizes, sz)
              /\ files' = r.files
              /\ data' = IF r.opened
                         THEN putData(data, targetPath(outputDir, e.name), Len(archive) + 1, r.n)
                         ELSE data
              /\ extracted' = IF r.counted THEN [extracted EXCEPT ![m] = @ + 1] ELSE extracted
              /\ exErr' = r.err
              /\ exState' = "walking"
    /\ UNCHANGED <<pvars, fvars, dvars, cvars, outputDir, worlds, warnings,
                   rvars, jvars>>

\* tr.Next() returns a header out of E whose data has a size out of Z: one
\* pass through the body of the loop
WalkEntry(E, Z) ==
    /\ exState = "walking"
    /\ Len(archive) < MaxEntries
    /\ \E e \in E, io \in {"none", "mkdir", "write"} :
         \E sz \in sizeChoices(e, Z), m \in matchWorld(e.name, worlds) :
           LET h == [name |-> e.name, type |-> e.type, size |-> sz]
               r == extractEntry(files, outputDir, h, m, io)
           IN /\ archive' = Append(archive, e)
              /\ entrySizes' = Append(entrySizes, sz)
              /\ files' = r.files
              /\ data' = IF r.opened
                         THEN putData(data, targetPath(outputDir, e.name), Len(archive) + 1, r.n)
                         ELSE data
              /\ extracted' = IF r.counted THEN [extracted EXCEPT ![m] = @ + 1] ELSE extracted
              /\ exErr' = r.err
              /\ exState' = IF r.err = "nil" THEN "walking" ELSE "failed"
    /\ UNCHANGED <<pvars, fvars, dvars, cvars, outputDir, worlds, warnings,
                   rvars, jvars>>

\* file bodies of one byte
UnitSizes == {Int64(0, 1)}

\* tr.Next() returns a header
NextEntry == WalkEntry(Entries, UnitSizes)

\* tr.Next() returns io.EOF: the tally is reported, with a warning for each
\* name without a file, and extractWorlds returns nil
NextEOF ==
    /\ exState = "walking"
    /\ exState' = "done"
    /\ warnings' = {w \in worlds : extracted[w] = 0}
    /\ UNCHANGED <<pvars, fvars, dvars, cvars, outputDir, worlds, archive, files, extracted,
                   entrySizes, data, exErr, rvars, jvars>>

\* tr.Next() returns another error
NextError ==
    /\ exState = "walking"
    /\ exState' = "failed"
    /\ exErr' = "reading tar entry"
    /\ UNCHANGED <<pvars, fvars, dvars, cvars, outputDir, worlds, archive, files, extracted,
                   entrySizes, data, warnings, rvars, jvars>>

\* extractWorlds is called on an archive stream with the filter set ws
InitExtract(ws) ==
    /\ InitDownload({1})
    /\ mode = "single"
    /\ connOverride = 0
    /\ outputDir \in Roots
    /\ worlds \in ws
    /\ archive = <<>>
    /\ files = {}
    /\ extracted = [w \in worlds |-> 0]
    /\ entrySizes = <<>>
    /\ data = {}
    /\ warnings = {}
    /\ exState = "start"
    /\ exErr = "nil"

InitEx == InitExtract(WorldSets)

NextEx ==
    \/ GzipOpen
    \/ NextEntry
    \/ NextEOF
    \/ NextError

SpecEx == InitEx /\ [][NextEx]_vars

(***************************************************************************)
(* extractWorlds on file bodies around the size limit of writeFile.        *)
(***************************************************************************)
SizeEntries ==
    { Entry(P(<<World, <<>>>>), "dir"),
      Entry(P(<<World, FileA>>), "reg"),
      Entry(P(<<Other, FileB>>), "reg") }

LimitSizes == {Int64(0, 1), limit, Succ(limit), Int64(11, 5)}

NextSizedEntry == WalkEntry(SizeEntries, LimitSizes)

NextSize ==
    \/ GzipOpen
    \/ NextSizedEntry
    \/ NextEOF
    \/ NextError

SpecSize == InitEx /\ [][NextSize]_vars

(***************************************************************************)
(* extractWorlds with a filter set in which one name lies under another:   *)
(* an entry can match both, and matchWorld returns whichever the map       *)
(* yields first.                                                           *)
(***************************************************************************)
\* a filter name under the filter name world
Nested == P(<<World, Other>>)

NestedWorldSets == { {World, Nested} }

NestedEntries ==
    { Entry(P(<<World, <<>>>>), "dir"),
      Entry(P(<<World, FileA>>), "reg"),
      Entry(P(<<World, Other, FileB>>), "reg"),
      Entry(P(<<World, Other, <<>>>>), "dir") }

\* file bodies of one or two bytes
SmallSizes == {Int64(0, 1), Int64(0, 2)}

InitNested == InitExtract(NestedWorldSets)

NextNestedEntry == WalkEntry(NestedEntries, SmallSizes)

NextNested ==
    \/ GzipOpen
    \/ NextNestedEntry
    \/ NextEOF
    \/ NextError

SpecNested == InitNested /\ [][NextNested]_vars

(***************************************************************************)
(* extractWorlds with the filter sets that ServerConfig.ResolveWorlds      *)
(* gives.                                                                  *)
(***************************************************************************)
\* ServerConfig.ResolveWorlds for a server type and a world name, the name as
\* characters (<<>> is the empty string): the list of folder names
ResolveWorlds(c) ==
    LET name == IF c.WorldName = <<>> THEN <<"w", "o", "r", "l", "d">> ELSE c.WorldName
    IN CASE c.ServerType = "vanilla" -> <<name>>
         [] c.ServerType = "plugin" ->
              << name,
                 name \o <<"_", "n", "e", "t", "h", "e", "r">>,
                 name \o <<"_", "t", "h", "e", "_", "e", "n", "d">> >>
         [] OTHER -> <<name>>

\* the world names tried: none, a plain one, one with a slash, and one that
\* is itself the nether folder of another
WorldNames == { <<>>, World, Nested, World \o <<"_", "n", "e", "t", "h", "e", "r">> }

\* the filter sets handed to DownloadAndExtractWorlds: the names of the list
ResolvedWorldSets ==
    { {ResolveWorlds([ServerType |-> t, WorldName |-> n])[i] :
         i \in DOMAIN ResolveWorlds([ServerType |-> t, WorldName |-> n])} :
      t \in {"vanilla", "plugin", "forge"}, n \in WorldNames }

ResolvedEntries ==
    { Entry(P(<<World, FileA>>), "reg"),
      Entry(P(<<World \o <<"_", "n", "e", "t", "h", "e", "r">>, FileA>>), "reg"),
      Entry(P(<<World \o <<"_", "t", "h", "e", "_", "e", "n", "d">>, FileA>>), "reg"),
      Entry(P(<<World \o <<"_", "n", "e", "t", "h", "e", "r", "_", "n", "e", "t", "h", "e", "r">>,
                FileA>>), "reg"),
      Entry(P(<<World, Other \o <<"_", "n", "e", "t", "h", "e", "r">>, FileB>>), "reg"),
      Entry(P(<<World, Other, FileB>>), "reg") }

InitWorlds == InitExtract(ResolvedWorldSets)

NextResolvedEntry == WalkEntry(ResolvedEntries, UnitSizes)

NextWorlds ==
    \/ GzipOpen
    \/ NextResolvedEntry
    \/ NextEOF
    \/ NextError

SpecWorlds == InitWorlds /\ [][NextWorlds]_vars

Next ==
    \/ DownloadAndExtractWorlds
    \/ downloadAutoExtract
    \/ downloadParallelExtract
    \/ CreateTemp
    \/ Truncate
    \/ Spawn
    \/ \E w \in Workers : Request(w)
    \/ \E w \in Workers : Read(w)
    \/ \E w \in Workers : Record(w)
    \/ WaitReturn
    \/ DownloadFailed
    \/ CloseTemp
    \/ Reopen
    \/ ExtractFile
    \/ Unwind
    \/ downloadStreamExtract

Spec == Init /\ [][Next]_vars

(***************************************************************************)
(* The selector alone, on sizes around the parallel threshold.             *)
(***************************************************************************)
ThresholdSizes == {1048576, minParallelSize - 1, minParallelSize, minParallelSize + 1}

InitSel == InitDownload(ThresholdSizes) /\ InitExtractIdle

NextSel ==
    \/ DownloadAndExtractWorlds
    \/ downloadAutoExtract
    \/ downloadParallelExtract

SpecSel == InitSel /\ [][NextSel]_vars

(***************************************************************************)
(* The chunk plan alone: downloadParallel's loop for any size and count.   *)
(***************************************************************************)
InitPlan ==
    /\ mode = "parallel"
    /\ contentLength \in 1 .. PlanMaxSize
    /\ numWorkers \in 1 .. PlanMaxWorkers
    /\ connOverride = numWorkers
    /\ serverTotal = contentLength
    /\ probeResp = Response(206, RangeHeader(contentLength), 1)
    /\ rangeOK = TRUE
    /\ path = "parallel"
    /\ result = "none"
    /\ pc = "spawn"
    /\ tmpExists = TRUE
    /\ tmpHandle = "rw"
    /\ fileLen = contentLength
    /\ defers = <<"remove">>
    /\ InitWorkers(0 .. (PlanMaxWorkers - 1))
    /\ reporter = "running"
    /\ progressDone = FALSE
    /\ got = -1
    /\ InitCLIIdle
    /\ InitExtractIdle
    /\ cfg = Config(mode, connOverride)
    /\ parsed = NoParse
    /\ probeErr = "none"

NextPlan == Spawn

SpecPlan == InitPlan /\ [][NextPlan]_vars

(***************************************************************************)
(* From config.toml to the strategy: Load, then the selector.              *)
(***************************************************************************)
\* config.Load and, when it succeeds, the call of DownloadAndExtractWorlds
\* with the options of the configuration
Load ==
    /\ pc = "Load"
    /\ \/ /\ result' = "err:parsing"
          /\ pc' = "returned"
          /\ UNCHANGED <<mode, connOverride>>
       \/ /\ loadError(cfg) # "nil"
          /\ result' = "err:" \o loadError(cfg)
          /\ pc' = "returned"
          /\ UNCHANGED <<mode, connOverride>>
       \/ /\ loadError(cfg) = "nil"
          /\ \/ /\ result' = "err:resolving path"
                /\ pc' = "returned"
                /\ UNCHANGED <<mode, connOverride>>
             \/ /\ mode' = Options(cfg).Mode
                /\ connOverride' = Options(cfg).Connections
                /\ pc' = "start"
                /\ result' = result
    /\ UNCHANGED <<serverTotal, probeResp, contentLength, rangeOK, numWorkers, path,
                   fvars, dvars, evars, cvars, rvars, jvars>>

\* the state before the configuration is loaded, for resources of the sizes
InitLoad(sizes) ==
    /\ pc = "Load"
    /\ cfg \in Configs
    /\ mode = ""
    /\ connOverride = 0
    /\ serverTotal \in sizes
    /\ probeResp = NoResp
    /\ contentLength = 0
    /\ rangeOK = FALSE
    /\ numWorkers = 0
    /\ path = "none"
    /\ result = "none"
    /\ tmpExists = FALSE
    /\ tmpHandle = "none"
    /\ fileLen = 0
    /\ defers = <<>>
    /\ InitWorkers(Workers)
    /\ InitReporter
    /\ InitCLIIdle
    /\ parsed = NoParse
    /\ probeErr = "none"
    /\ InitExtractIdle

InitCfg == InitLoad({minParallelSize})

NextCfg ==
    \/ Load
    \/ DownloadAndExtractWorlds
    \/ downloadAutoExtract
    \/ downloadParallelExtract

SpecCfg == InitCfg /\ [][NextCfg]_vars

(***************************************************************************)
(* The worker count of the parallel path, for sizes around the limits of   *)
(* the scale and every configuration that Load accepts.                    *)
(***************************************************************************)
ScaleSizes ==
    { Int64(0, 1), Wide(minParallelSize), Pred(Shl(256, 20)), Shl(256, 20), Pred(Shl(1, 30)),
      Shl(1, 30), Succ(Shl(1, 30)), Pred(Shl(4, 30)), Shl(4, 30), Succ(Shl(4, 30)),
      Shl(10, 30) }

\* the configuration was loaded and the prober has reported range support
\* and the size contentLength: the parallel path is about to be taken
InitConn ==
    /\ cfg \in {c \in Configs : loadError(c) = "nil"}
    /\ mode = Options(cfg).Mode
    /\ mode \in {"auto", "parallel"}
    /\ connOverride = Options(cfg).Connections
    /\ contentLength \in ScaleSizes
    /\ mode = "auto" => ~Less(contentLength, Wide(minParallelSize))
    /\ serverTotal = contentLength
    /\ rangeOK = TRUE
    /\ pc = "connectionCount"
    /\ probeResp = Response(206, <<>>, 1)
    /\ numWorkers = 0
    /\ path = "none"
    /\ result = "none"
    /\ tmpExists = FALSE
    /\ tmpHandle = "none"
    /\ fileLen = 0
    /\ defers = <<>>
    /\ InitWorkers(Workers)
    /\ InitReporter
    /\ InitCLIIdle
    /\ parsed = NoParse
    /\ probeErr = "nil"
    /\ InitExtractIdle

\* numWorkers := connectionCount(contentLength), the override when it is > 0,
\* and the call of parallelDownloadAndExtract
CountWorkers ==
    /\ pc = "connectionCount"
    /\ numWorkers' = workerCount(contentLength, connOverride)
    /\ path' = "parallel"
    /\ pc' = "parallelDownloadAndExtract"
    /\ UNCHANGED <<mode, connOverride, serverTotal, probeResp, contentLength, rangeOK, result,
                   fvars, dvars, evars, cvars, rvars, jvars>>

NextConn == CountWorkers

SpecConn == InitConn /\ [][NextConn]_vars

(***************************************************************************)
(* The prober alone, on any response a server may give.                    *)
(***************************************************************************)
\* "bytes X-Y/"
RangePrefix(X, Y) == <<"b", "y", "t", "e", "s", " ">> \o Digits(X) \o <<"-">> \o Digits(Y) \o <<"/">>

\* the beginnings of well-formed Content-Range values
RangePrefixes == {RangePrefix(0, 0), RangePrefix(10, 25)}

\* beginnings that end with a slash and are not of the form "bytes X-Y/"
OtherSlashPrefixes ==
    { <<"/">>, <<"x", "/">>, BytesPrefix \o <<"/", "/">>,
      <<"b", "y", "t", "e", "s", " ", "*", "/">>, <<"0", "-", "0", "/">> }

\* totals a server may declare
Totals == {1, 5, 42, 1048576, minParallelSize}

\* what may stand after the slash and is not a decimal integer
BadTotals == { <<>>, <<"*">>, <<"x">>, <<"1", "x">>, <<"1", " ">>, <<" ", "1">>,
               <<"1", ".", "5">>, <<"-">>, <<"0", "x", "1", "0">> }

\* totals that parse and are not positive
NonPositiveTotals == { <<"0">>, <<"-", "1">>, <<"0", "0">> }

\* values without any slash
NoSlashHeaders == { <<>>, BytesPrefix, <<"5">>, <<"b", "y", "t", "e", "s">> }

ContentRanges ==
    NoSlashHeaders
    \cup {pre \o tot : pre \in RangePrefixes \cup OtherSlashPrefixes,
                       tot \in {Digits(T) : T \in Totals} \cup BadTotals \cup NonPositiveTotals}

\* every response the probe request may get
AllProbeResponses ==
    {Response(st, <<>>, -1) : st \in {0, 301, 404, 416, 500}}
    \cup {Response(200, <<>>, cl) : cl \in {-1, 0} \cup Totals}
    \cup {Response(200, RangePrefix(0, 0) \o Digits(T), T) : T \in Totals}
    \cup {Response(206, h, 1) : h \in ContentRanges}

\* probeDownload is called and returns
Probe ==
    /\ pc = "probeDownload"
    /\ \E resp \in AllProbeResponses :
         LET p == probeDownload(resp)
         IN /\ probeResp' = resp
            /\ parsed' = parsedBy(resp)
            /\ contentLength' = p.cl
            /\ rangeOK' = p.rangeOK
            /\ probeErr' = p.err
    /\ pc' = "probed"
    /\ UNCHANGED <<mode, connOverride, serverTotal, numWorkers, path, result,
                   fvars, dvars, evars, cfg, rvars, jvars>>

InitProbe ==
    /\ pc = "probeDownload"
    /\ InitOptions(Totals)
    /\ InitCLIIdle
    /\ mode \in {"auto", "parallel"}
    /\ connOverride = 0
    /\ InitExtractIdle

NextProbe == Probe

SpecProbe == InitProbe /\ [][NextProbe]_vars

(***************************************************************************)
(* downloadParallel with its progress reporter goroutine, byte by byte.    *)
(***************************************************************************)
\* the reporter's select takes the ticker: got := downloaded.Load(), and a
\* progress line is printed
Tick ==
    /\ reporter = "running"
    /\ got' = downloaded
    /\ UNCHANGED <<pvars, fvars, dvars, evars, cvars, reporter, progressDone, jvars>>

\* the reporter's select takes the closed progressDone: the goroutine returns
ReporterExit ==
    /\ reporter = "running"
    /\ progressDone
    /\ reporter' = "stopped"
    /\ UNCHANGED <<pvars, fvars, dvars, evars, cvars, progressDone, got, jvars>>

\* forced parallel mode has probed a resource of 1..ProgMaxSize bytes and made
\* the temp file: downloadParallel is called
InitProg ==
    /\ mode = "parallel"
    /\ connOverride \in 1 .. MaxWorkers
    /\ serverTotal \in 1 .. ProgMaxSize
    /\ probeResp = Response(206, RangeHeader(serverTotal), 1)
    /\ contentLength = serverTotal
    /\ rangeOK = TRUE
    /\ numWorkers = workerCount(Wide(contentLength), connOverride)
    /\ path = "parallel"
    /\ result = "none"
    /\ pc = "downloadParallel"
    /\ tmpExists = TRUE
    /\ tmpHandle = "rw"
    /\ fileLen = 0
    /\ defers = <<"remove">>
    /\ InitWorkers(Workers)
    /\ InitReporter
    /\ InitCLIIdle
    /\ InitExtractIdle
    /\ cfg = Config(mode, connOverride)
    /\ parsed = parseContentRange(probeResp.contentRange)
    /\ probeErr = "nil"

NextProg ==
    \/ Truncate
    \/ Spawn
    \/ \E w \in Workers : Request(w)
    \/ \E w \in Workers : Read(w)
    \/ \E w \in Workers : Record(w)
    \/ WaitReturn
    \/ Tick
    \/ ReporterExit

SpecProg == InitProg /\ [][NextProg]_vars

(***************************************************************************)
(* Auto mode on a resource of the parallel threshold size, from the        *)
(* selector to the return, with the progress reporter. A worker's          *)
(* downloadChunk is one step here: its HTTP exchange from the request to   *)
(* the end of the body.                                                    *)
(***************************************************************************)
\* the numbers of bytes a range body may deliver to worker w
chunkBodies(w) == {0, wLen(w), wLen(w) + MaxExtra}

\* downloadChunk, the whole call: the request fails, or the status is not
\* 206, or a body of c bytes is written and counted and then ends with EOF,
\* with a read error, or with a failing WriteAt
downloadChunk(w) ==
    /\ wpc[w] = "request"
    /\ requests' = requests + 1
    /\ \/ /\ \E e \in {"transport", "status"} : wErr' = [wErr EXCEPT ![w] = e]
          /\ wpc' = [wpc EXCEPT ![w] = "record"]
          /\ UNCHANGED <<wrote, fileLen, downloaded>>
       \/ \E c \in chunkBodies(w), e \in {"nil", "read", "write"} :
            /\ wrote' = [wrote EXCEPT ![w] = c]
            /\ fileLen' = lenAfterWrite(fileLen, wStart(w), c)
            /\ downloaded' = downloaded + c
            /\ wErr' = [wErr EXCEPT ![w] = e]
            /\ wpc' = [wpc EXCEPT ![w] = IF e = "nil" THEN "done" ELSE "record"]
    /\ UNCHANGED <<pvars, tmpExists, tmpHandle, defers, spawned, plan, offset, firstErr,
                   evars, cvars, rvars, jvars>>

InitAuto ==
    /\ InitDownload({minParallelSize})
    /\ mode = "auto"
    /\ InitExtractIdle

NextAuto ==
    \/ DownloadAndExtractWorlds
    \/ downloadAutoExtract
    \/ CreateTemp
    \/ Truncate
    \/ Spawn
    \/ \E w \in Workers : downloadChunk(w)
    \/ \E w \in Workers : Record(w)
    \/ WaitReturn
    \/ DownloadFailed
    \/ CloseTemp
    \/ Reopen
    \/ ExtractFile
    \/ Unwind
    \/ downloadStreamExtract
    \/ Tick
    \/ ReporterExit

\* every goroutine that can take a step takes one in the end: the calling
\* goroutine, each worker (its HTTP exchange ends, with data and EOF or with
\* an error, within the client's timeout) and the reporter's return
FairAuto ==
    /\ WF_vars(Truncate)
    /\ WF_vars(Spawn)
    /\ \A w \in Workers : WF_vars(downloadChunk(w)) /\ WF_vars(Record(w))
    /\ WF_vars(WaitReturn)
    /\ WF_vars(ReporterExit)

SpecAuto == InitAuto /\ [][NextAuto]_vars /\ FairAuto

(***************************************************************************)
(* bluemap.EnsureCLI: the BlueMap CLI jar is downloaded unless it is       *)
(* cached. A file is its size and where its bytes come from.               *)
(***************************************************************************)
\* a file of n bytes that come from src
File(n, src) == [size |-> n, source |-> src]

\* everything but the jar and its temp file stays as it is
CLIFrame == UNCHANGED <<pvars, fvars, dvars, evars, cvars, rvars, jarWas, body>>

\* os.Stat(jarPath): a jar that is there and not empty is returned as it is
StatJar ==
    /\ cliPc = "EnsureCLI"
    /\ IF jarFile.size > 0
       THEN cliPc' = "returned" /\ cliResult' = "nil"
       ELSE cliPc' = "get" /\ cliResult' = cliResult
    /\ UNCHANGED <<jarFile, tmpJar, copied>>
    /\ CLIFrame

\* client.Get(url) and the status check
GetJar ==
    /\ cliPc = "get"
    /\ \/ cliPc' = "returned" /\ cliResult' = "err:downloading BlueMap CLI"
       \/ cliPc' = "returned" /\ cliResult' = "err:download returned status"
       \/ cliPc' = "create" /\ cliResult' = cliResult
    /\ UNCHANGED <<jarFile, tmpJar, copied>>
    /\ CLIFrame

\* os.Create(tmpPath): the temp file is created or truncated
CreateTmpJar ==
    /\ cliPc = "create"
    /\ \/ /\ tmpJar' = File(0, "body")
          /\ cliPc' = "copy"
          /\ cliResult' = cliResult
       \/ /\ tmpJar' = tmpJar
          /\ cliPc' = "returned"
          /\ cliResult' = "err:creating temp file"
    /\ UNCHANGED <<jarFile, copied>>
    /\ CLIFrame

\* io.Copy(f, resp.Body): some more bytes of the body reach the temp file
CopyJar ==
    /\ cliPc = "copy"
    /\ \E n \in 1 .. (body - copied) :
         /\ copied' = copied + n
         /\ tmpJar' = File(copied + n, "body")
    /\ UNCHANGED <<cliPc, cliResult, jarFile>>
    /\ CLIFrame

\* a copy whose error is not looked at
CopyJarEndsUnchecked ==
    /\ cliPc = "copy"
    /\ cliPc' = "rename"
    /\ UNCHANGED <<cliResult, jarFile, tmpJar, copied>>
    /\ CLIFrame

\* io.Copy returns and f.Close(): at the end of the body without an error,
\* or with a read or write error at any point, after which the temp file is
\* removed
CopyJarEnds ==
    /\ cliPc = "copy"
    /\ \/ /\ copied = body
          /\ cliPc' = "rename"
          /\ UNCHANGED <<cliResult, tmpJar>>
       \/ /\ tmpJar' = NoFile
          /\ cliPc' = "returned"
          /\ cliResult' = "err:writing jar file"
    /\ UNCHANGED <<jarFile, copied>>
    /\ CLIFrame

\* os.Rename(tmpPath, jarPath); the temp file is removed when it fails
RenameJar ==
    /\ cliPc = "rename"
    /\ \/ /\ jarFile' = tmpJar
          /\ tmpJar' = NoFile
          /\ cliResult' = "nil"
       \/ /\ jarFile' = jarFile
          /\ tmpJar' = NoFile
          /\ cliResult' = "err:renaming temp file"
    /\ cliPc' = "returned"
    /\ copied' = copied
    /\ CLIFrame

\* EnsureCLI is called: no jar, an empty jar or a cached jar is at jarPath, a
\* temp file may be left from a run that was killed, and the release is a
\* body of 0 to MaxBody bytes
InitCLI ==
    /\ InitOptions({1})
    /\ mode = "single"
    /\ connOverride = 0
    /\ pc = "idle"
    /\ InitExtractIdle
    /\ cliPc = "EnsureCLI"
    /\ cliResult = "none"
    /\ jarWas \in {NoFile, File(0, "cache"), File(MaxBody, "cache")}
    /\ jarFile = jarWas
    /\ tmpJar \in {NoFile, File(1, "killed run")}
    /\ body \in 0 .. MaxBody
    /\ copied = 0

NextCLI ==
    \/ StatJar
    \/ GetJar
    \/ CreateTmpJar
    \/ CopyJar
    \/ CopyJarEnds
    \/ RenameJar

SpecCLI == InitCLI /\ [][NextCLI]_vars

(***************************************************************************)
(* Properties.                                                             *)
(***************************************************************************)
\* the byte offsets of a planned chunk
chunkBytes(c) == {b \in 0 .. PlanMaxSize + 1 : c.start <= b /\ b <= c.end}

\* the byte offsets of the file worker w has written
writtenBy(w) == IF w < spawned THEN {b \in 0 .. (MaxSize + MaxExtra + 1) :
                                       wStart(w) <= b /\ b < wStart(w) + wrote[w]}
                ELSE {}

\* the workers that have been started
Started == {w \in DOMAIN wpc : w < spawned}

\* C1: when downloadParallel has planned all chunks, start_i = i * floor(S/N),
\* end_i = start_i + floor(S/N) - 1 except that the last chunk ends at S - 1,
\* every byte offset of [0, S) lies in exactly one chunk, no chunk holds an
\* offset outside [0, S), and the last chunk holds the remainder of S / N.
C1_PlanCoversOnce ==
    spawned = numWorkers =>
      LET S == contentLength
          N == numWorkers
      IN /\ Len(plan) = N
         /\ \A i \in 1 .. N :
              /\ plan[i].start = (i - 1) * (S \div N)
              /\ i < N => plan[i].end = plan[i].start + (S \div N) - 1
         /\ plan[N].end = S - 1
         /\ \A b \in 0 .. (S - 1) :
              Cardinality({i \in 1 .. N : b \in chunkBytes(plan[i])}) = 1
         /\ \A i \in 1 .. N : chunkBytes(plan[i]) \subseteq 0 .. (S - 1)
         /\ Cardinality(chunkBytes(plan[N])) = (S \div N) + (S % N)

\* C1 witness: a complete plan of several chunks whose last chunk is longer
C1_Witness ==
    /\ spawned = numWorkers
    /\ numWorkers > 1
    /\ contentLength > numWorkers
    /\ contentLength % numWorkers # 0
    /\ Cardinality(chunkBytes(plan[numWorkers])) > Cardinality(chunkBytes(plan[1]))

\* C2: every offset a worker has written lies in its own planned range, and
\* no offset of the file has been written by two workers.
C2_WritesInsideOwnRange ==
    /\ \A w \in Started : \A b \in writtenBy(w) : wStart(w) <= b /\ b <= wEnd(w)
    /\ \A v, w \in Started : v # w => writtenBy(v) \cap writtenBy(w) = {}

\* C3: when downloadParallel has returned nil, every byte offset of
\* [0, total_size) has been written by some worker.
C3_NilMeansComplete ==
    pc = "closeTemp" =>
      \A b \in 0 .. (contentLength - 1) : \E w \in Started : b \in writtenBy(w)

\* downloadParallel has returned to parallelDownloadAndExtract
dpReturned == pc \in {"closeTemp", "downloadFailed", "reopen", "extract", "unwind", "returned"}

\* worker w is running
Running(w) == wpc[w] \in {"request", "read", "record"}

C4_AllFinished ==
    dpReturned => \A w \in DOMAIN wpc : ~Running(w) /\ (w < spawned => wpc[w] = "done")

C4_ErrorReturned ==
    /\ pc = "closeTemp" => firstErr = NoErr /\ \A w \in Started : wErr[w] = "nil"
    /\ (pc = "downloadFailed" /\ spawned > 0) =>
          /\ firstErr # NoErr
          /\ firstErr.worker \in Started
          /\ firstErr.kind = wErr[firstErr.worker]

C4_SiblingsGoOn ==
    \A w \in Started : /\ wpc[w] = "request" => ENABLED Request(w)
                       /\ wpc[w] = "read" => ENABLED Read(w)
                       /\ wpc[w] = "record" => ENABLED Record(w)

C4_FirstStays ==
    /\ firstErr # NoErr => firstErr' = firstErr
    /\ \A w \in Started :
         (firstErr = NoErr /\ wpc[w] = "record" /\ wpc'[w] = "done")
            => firstErr' = [worker |-> w, kind |-> wErr[w]]
    /\ \A w \in Started :
         (wpc'[w] # wpc[w] /\ wpc'[w] \in {"record", "done"})
            => \A v \in Started \ {w} : wpc'[v] = wpc[v] /\ offset'[v] = offset[v]

\* C4: downloadParallel returns only when no worker is running; it returns
\* an error exactly when a worker failed; the error it returns is the one of
\* the worker that recorded first, and no later failure replaces it; a
\* failing worker changes nothing of its siblings, which stay able to go on.
C4_FirstErrorWins ==
    /\ [](C4_AllFinished /\ C4_ErrorReturned /\ C4_SiblingsGoOn)
    /\ [][C4_FirstStays]_vars

\* C4 witness: both workers failed, the second recorded first, and the
\* download has returned that worker's error
C4_Witness ==
    /\ pc = "downloadFailed"
    /\ spawned = 2
    /\ wErr[0] = "write"
    /\ wErr[1] = "status"
    /\ firstErr = [worker |-> 1, kind |-> "status"]

\* C5: on the parallel path the archive file is open for reading, and the
\* extraction is started, only when every worker has finished without an
\* error and the file has been closed and reopened; while a worker runs the
\* file is held by the download alone.
C5_ExtractAfterDownload ==
    /\ (pc = "extract" \/ tmpHandle = "ro") =>
          /\ spawned = numWorkers
          /\ numWorkers >= 1
          /\ \A w \in Started : wpc[w] = "done" /\ wErr[w] = "nil"
          /\ firstErr = NoErr
    /\ pc = "extract" => tmpHandle = "ro"
    /\ (\E w \in DOMAIN wpc : Running(w)) => tmpHandle = "rw" /\ pc = "spawn"
    /\ (path = "parallel" /\ result \in {"nil", "err:extract"}) =>
          firstErr = NoErr /\ \A w \in Started : wErr[w] = "nil"

\* C5 witness: the extraction is about to read the reopened file of a
\* download that two workers have completed
C5_Witness ==
    /\ pc = "extract"
    /\ tmpHandle = "ro"
    /\ numWorkers = 2
    /\ \A w \in Started : wrote[w] = wLen(w)

segsOf(p) == SelectSeq(Split(p), LAMBDA x : x # <<>>)

\* where a walk from the directory `stack` along the elements segs ends
RECURSIVE walkFrom(_, _)
walkFrom(stack, segs) ==
    IF segs = <<>> THEN stack
    ELSE IF Head(segs) = <<>> \/ Head(segs) = <<".">> THEN walkFrom(stack, Tail(segs))
    ELSE IF Head(segs) = Up
         THEN walkFrom(IF stack = <<>> THEN stack ELSE SubSeq(stack, 1, Len(stack) - 1),
                       Tail(segs))
    ELSE walkFrom(Append(stack, Head(segs)), Tail(segs))

\* the directory elements dir is a proper beginning of the elements ps
Below(ps, dir) == Len(ps) > Len(dir) /\ SubSeq(ps, 1, Len(dir)) = dir

\* the entry name, resolved from the destination root, ends outside the root
Escapes(root, name) == ~Below(walkFrom(segsOf(root), Split(name)), segsOf(root))

\* path p names a place strictly inside the destination root
StrictlyInside(p, root) ==
    /\ Below(segsOf(p), segsOf(root))
    /\ \A i \in 1 .. Len(segsOf(p)) : segsOf(p)[i] \notin {Up, <<".">>}

C7_NothingOutside == \A f \in files : StrictlyInside(f.path, outputDir)

C7_EscapeSkipped ==
    (Len(archive') = Len(archive) + 1 /\ Escapes(outputDir, archive'[Len(archive')].name))
       => files' = files /\ extracted' = extracted /\ exErr' = "nil" /\ exState' = "walking"

\* C7: every file and directory extractWorlds has created lies strictly
\* inside the destination root, and an entry whose resolved path leaves the
\* root changes nothing, raises no error and leaves the walk going.
C7_NoEscape == []C7_NothingOutside /\ [][C7_EscapeSkipped]_vars

\* C7 witness: world/../../etc/b.txt was read first, then a file was
\* extracted, and the walk ended without an error
C7_Witness ==
    /\ exState = "done"
    /\ Len(archive) = 2
    /\ archive[1] = Entry(P(<<World, Up, Up, Etc, FileB>>), "reg")
    /\ archive[2] = Entry(P(<<World, FileA>>), "reg")
    /\ [path |-> outputDir \o <<"/">> \o P(<<World, FileA>>), kind |-> "file"] \in files

\* C8: every file and directory extractWorlds has created lies at or under
\* <destination root>/<name> for a name of the filter set; and for the
\* entries world/, world/a.txt, other/b.txt with the filter set {world} the
\* destination holds world/a.txt (in the directory world) and nothing else.
C8_OnlyUnderFilterNames ==
    /\ \A f \in files : \E w \in worlds : Under(f.path, outputDir \o <<"/">> \o w)
    /\ (/\ exState = "done"
        /\ worlds = {World}
        /\ archive = << Entry(P(<<World, <<>>>>), "dir"), Entry(P(<<World, FileA>>), "reg"),
                        Entry(P(<<Other, FileB>>), "reg") >>)
         => files = { [path |-> outputDir \o <<"/">> \o World, kind |-> "dir"],
                      [path |-> outputDir \o <<"/">> \o P(<<World, FileA>>), kind |-> "file"] }

\* C9: in auto mode the parallel path is dispatched to exactly when the probe
\* has reported range support and a total of at least 67108864 bytes, and
\* the single-stream path otherwise; a 206 probe response with the trailer
\* "bytes 0-0/1048576" leads to single-stream, one whose total is 67108864
\* or more leads to parallel.
C9_AutoSelection ==
    (mode = "auto" /\ pc \notin {"start", "downloadAutoExtract"}) =>
       /\ path \in {"parallel", "single"}
       /\ path = "parallel" <=> (rangeOK /\ contentLength >= 67108864)
       /\ path = "parallel" <=> pc = "parallelDownloadAndExtract"
       /\ path = "single" <=> pc = "downloadStreamExtract"
       /\ (probeResp.status = 206 /\ probeResp.contentRange = RangeHeader(1048576))
             => path = "single"
       /\ (probeResp.status = 206 /\ serverTotal >= 67108864
             /\ probeResp.contentRange = RangeHeader(serverTotal)) => path = "parallel"

\* C9 witness: auto mode chose the parallel path for a file of exactly 64 MiB
C9_Witness ==
    /\ mode = "auto"
    /\ path = "parallel"
    /\ contentLength = 67108864
    /\ probeResp.status = 206

\* C10: in parallel mode, once the probe has reported no range support or no
\* size, the call has returned a precondition error, no temp file exists or
\* was opened, no range request was issued, no strategy was dispatched to
\* and nothing was extracted.
C10_ForcedParallelFailsFast ==
    (mode = "parallel" /\ probeResp # NoResp /\ (~rangeOK \/ contentLength <= 0)) =>
       /\ pc = "returned"
       /\ result \in {"err:no-range", "err:no-content-length"}
       /\ ~tmpExists
       /\ tmpHandle = "none"
       /\ defers = <<>>
       /\ requests = 0
       /\ spawned = 0
       /\ path = "none"
       /\ exState = "idle" /\ files = {}

\* C10 witness: forced parallel mode against a server that answered the
\* probe with 200 and a content length
C10_Witness ==
    /\ mode = "parallel"
    /\ probeResp.status = 200
    /\ probeResp.contentLength > 0
    /\ result = "err:no-range"
    /\ pc = "returned"

\* the probe request failed: a transport error or an unexpected status
ProbeFailed == probeResp # NoResp /\ probeResp.status \notin {200, 206}

\* C11 as claimed: in every mode that probes, a failed probe leads to the
\* single-stream path and to no error caused by the probe.
C11_ProbeFailureDegradesAlways ==
    (ProbeFailed /\ mode \in {"auto", "parallel"}) =>
       /\ path = "single"
       /\ result \notin {"err:probing download URL", "err:no-range", "err:no-content-length"}

\* C11 amended: a failed probe is never returned as a probe error;
\* probeDownload reports it as (unknown size, no range support, nil). In auto
\* mode the call then takes the single-stream path without a temp file, in
\* parallel mode it returns the no-range precondition error at once.
C11_ProbeFailureNotAProbeError ==
    ProbeFailed =>
       /\ probeErr = "nil" /\ contentLength = 0 /\ ~rangeOK
       /\ result # "err:probing download URL"
       /\ mode = "auto" =>
            /\ path = "single"
            /\ pc \in {"downloadStreamExtract", "returned"}
            /\ result \in {"none", "nil", "err:get", "err:status", "err:extract"}
            /\ ~tmpExists /\ requests = 0
       /\ mode = "parallel" =>
            /\ pc = "returned"
            /\ result = "err:no-range"
            /\ path = "none"

\* C11 witness: auto mode, the probe met a transport error, and the
\* single-stream download and extraction ended well
C11_Witness ==
    /\ mode = "auto"
    /\ probeResp.status = 0
    /\ path = "single"
    /\ pc = "returned"
    /\ result = "nil"

\* every beginning a Content-Range value of the model may have
SlashPrefixes == RangePrefixes \cup OtherSlashPrefixes

WellFormedRanges ==
    {pre \o tot : pre \in RangePrefixes, tot \in {Digits(T) : T \in Totals} \cup NonPositiveTotals}

\* C13: for a Content-Range value "bytes X-Y/T" with T a decimal integer
\* parseContentRange returns (T, true); for an empty value, for a total "*"
\* and for every value that is not of that form it returns (0, false).
C13_ParseContentRange ==
    (pc = "probed" /\ probeResp.status = 206) =>
       LET h == probeResp.contentRange
       IN /\ \A pre \in RangePrefixes, T \in Totals :
               h = pre \o Digits(T) => parsed = [ok |-> TRUE, total |-> T]
          /\ h \in {RangePrefix(0, 0) \o <<"0">>, RangePrefix(0, 0) \o <<"0", "0">>}
               => parsed = [ok |-> TRUE, total |-> 0]
          /\ h = RangePrefix(0, 0) \o <<"-", "1">> => parsed = [ok |-> TRUE, total |-> -1]
          /\ (h = <<>> \/ (\E pre \in SlashPrefixes : h = pre \o <<"*">>) \/ h \notin WellFormedRanges)
               => parsed = [ok |-> FALSE, total |-> 0]

\* the i-th header read is a regular file that matches a filter name and
\* stays inside the destination root: writeFile is called for it
ReachesWriteFile(i) ==
    /\ archive[i].type = "reg"
    /\ matchingWorlds(archive[i].name, worlds) # {}
    /\ ~Escapes(outputDir, archive[i].name)

\* the loop body has ended without an error for the i-th header (an error of
\* the loop body ends the walk, so that it belongs to the last header read)
EntryDone(i) ==
    i < Len(archive) \/ (i = Len(archive) /\ exErr \notin {ErrMkdir, ErrParent, ErrWrite, ErrLimit})

\* C14: a file entry of exactly 10 GiB is never refused for its size; an
\* entry larger than 10 GiB, from one byte over, never succeeds: the walk
\* ends there as failed, with the size-limit error whenever the copy ran;
\* and a file whose write has succeeded holds all the bytes of its entry.
C14_SizeLimit ==
    /\ \A i \in 1 .. Len(archive) :
         ReachesWriteFile(i) =>
            /\ (i = Len(archive) /\ exErr = ErrLimit) => Less(limit, entrySizes[i])
            /\ EntryDone(i) => ~Less(limit, entrySizes[i])
            /\ Less(limit, entrySizes[i]) =>
                 /\ i = Len(archive)
                 /\ exState = "failed"
                 /\ exErr \in {ErrLimit, ErrParent, ErrWrite}
                 /\ (\E d \in data : d.entry = i /\ d.n # Int64(0, 0)) => exErr = ErrLimit
            /\ (i = Len(archive) /\ exErr = "nil") =>
                 [path |-> outputDir \o <<"/">> \o archive[i].name, entry |-> i,
                  n |-> entrySizes[i]] \in data
    /\ \A d \in data : EntryDone(d.entry) => d.n = entrySizes[d.entry]

\* C14 witness: a file of exactly 10 GiB was extracted and counted, then a
\* file of 10 GiB + 1 byte ended the walk with the size-limit error
C14_Witness ==
    /\ Len(archive) = 2
    /\ archive[1] = Entry(P(<<World, FileA>>), "reg")
    /\ entrySizes = <<Int64(10, 0), Int64(10, 1)>>
    /\ extracted[World] = 1
    /\ exState = "failed"
    /\ exErr = ErrLimit

\* the number of regular-file entries read so far that were written for w
WrittenFor(w) ==
    Cardinality({i \in 1 .. Len(archive) :
                   /\ ReachesWriteFile(i)
                   /\ w \in matchingWorlds(archive[i].name, worlds)
                   /\ EntryDone(i)})

\* C15: the tally of each filter name is the number of regular-file entries
\* written for it (directories and skipped entries are not counted); the end
\* of the archive makes extractWorlds return success whatever the tallies,
\* and the names warned about are exactly those without a written file; no
\* error of extractWorlds comes from a name that was not found.
C15_UnmatchedNameOnlyWarns ==
    /\ \A w \in worlds : extracted[w] = WrittenFor(w)
    /\ exState = "done" =>
         /\ exErr = "nil"
         /\ warnings = {w \in worlds : WrittenFor(w) = 0}
    /\ exState # "done" => warnings = {}
    /\ exState = "failed" =>
         exErr \in {"creating gzip reader", "reading tar entry", ErrMkdir, ErrParent, ErrWrite,
                    ErrLimit}

\* C15 witness: with the filter set {world, other} the archive world/,
\* world/a.txt, world/a.txt was walked to its end: two files counted for
\* world, a warning for other, and success
C15_Witness ==
    /\ exState = "done"
    /\ exErr = "nil"
    /\ worlds = {World, Other}
    /\ archive = << Entry(P(<<World, <<>>>>), "dir"), Entry(P(<<World, FileA>>), "reg"),
                    Entry(P(<<World, FileA>>), "reg") >>
    /\ extracted = (World :> 2 @@ Other :> 0)
    /\ warnings = {Other}

\* C16: in single mode the call goes to the single-stream path and nowhere
\* else, without any probe request, for every size of the resource (the
\* server is never asked about ranges or size).
C16_SingleNeverProbes ==
    (mode = "single" /\ pc # "start") =>
       /\ path = "single"
       /\ pc \in {"downloadStreamExtract", "returned"}
       /\ probeResp = NoResp /\ probeErr = "none" /\ parsed = NoParse
       /\ contentLength = 0 /\ ~rangeOK
       /\ numWorkers = 0 /\ requests = 0 /\ ~tmpExists

\* C16 witness: single mode is about to stream a resource that auto mode
\* would download in parallel
C16_Witness ==
    /\ mode = "single"
    /\ serverTotal > minParallelSize
    /\ pc = "downloadStreamExtract"
    /\ path = "single"

\* C17: on the single-stream path, in single mode and in auto mode alike,
\* no temp file exists, none was created, opened, sized or scheduled for
\* removal, and no range request or worker was started; a temp file comes
\* into being on the parallel path only.
C17_SingleStreamNoTempFile ==
    /\ path = "single" =>
         /\ ~tmpExists /\ tmpHandle = "none" /\ fileLen = 0 /\ defers = <<>>
         /\ spawned = 0 /\ requests = 0 /\ downloaded = 0
    /\ (tmpExists \/ tmpHandle # "none" \/ defers # <<>>) => path = "parallel"

\* C17 witness: auto mode streamed a resource whose server supports ranges
\* but which is below the threshold, and the call returned success
C17_Witness ==
    /\ mode = "auto"
    /\ probeResp.status = 206
    /\ rangeOK
    /\ path = "single"
    /\ pc = "returned"
    /\ result = "nil"

\* contentLength (an int64 pair) is below hi * 2^30 + lo
SizeBelow(hi, lo) == contentLength.hi < hi \/ (contentLength.hi = hi /\ contentLength.lo < lo)

Loaded == pc # "Load" /\ result \in {"none", "err:no-range", "err:no-content-length"}

\* the selector or a probe has been started
DownloadStarted ==
    \/ pc \in {"start", "downloadAutoExtract", "downloadParallelExtract", "downloadStreamExtract",
               "parallelDownloadAndExtract"}
    \/ probeResp # NoResp
    \/ path # "none"

\* C20: Load returns a configuration only when download_mode is empty,
\* "auto", "parallel" or "single" and download_connections is within 0..32;
\* with any other value it returns an error and nothing is started; an empty
\* mode resolves to "auto"; so a download is only ever started with a mode
\* out of auto, parallel, single and a connection count within 0..32.
C20_LoadValidatesDownloadOptions ==
    /\ Loaded =>
         /\ cfg.download_mode \in {"", "auto", "parallel", "single"}
         /\ cfg.download_connections \in 0 .. 32
         /\ mode = IF cfg.download_mode = "" THEN "auto" ELSE cfg.download_mode
         /\ connOverride = cfg.download_connections
    /\ (pc # "Load" /\ (cfg.download_mode \notin {"", "auto", "parallel", "single"}
                         \/ cfg.download_connections \notin 0 .. 32)) =>
         /\ pc = "returned"
         /\ result \in {"err:parsing", "err:server_id is required", "err:server_type is required",
                        "err:server_type must be", "err:world_name is required",
                        "err:mc_version is required", "err:bluemap_version is required",
                        "err:download_mode must be", "err:download_connections must be"}
         /\ ~DownloadStarted
    /\ DownloadStarted => mode \in {"auto", "parallel", "single"} /\ connOverride \in 0 .. 32

\* C20 witness: a configuration without download_mode and with 32
\* connections was loaded, resolved to auto mode, and the parallel path was
\* chosen with 32 workers
C20_Witness ==
    /\ cfg.download_mode = ""
    /\ cfg.download_connections = 32
    /\ mode = "auto"
    /\ path = "parallel"
    /\ numWorkers = 32

\* the i-th header read is a directory or a regular file that matches a
\* filter name and stays inside the destination root
Kept(i) ==
    /\ archive[i].type \in {"dir", "reg"}
    /\ matchingWorlds(archive[i].name, worlds) # {}
    /\ ~Escapes(outputDir, archive[i].name)

\* the place the i-th header names, as path elements from the root directory
placeOf(i) == walkFrom(segsOf(outputDir), Split(archive[i].name))

\* the path of the given elements
pathOf(segs) == <<"/">> \o JoinSegs(segs)

\* what the i-th header brings into being: the directories between the
\* destination root and its place, and its place itself
broughtBy(i) ==
    {[path |-> pathOf(SubSeq(placeOf(i), 1, k)), kind |-> "dir"] :
        k \in (Len(segsOf(outputDir)) + 1) .. (Len(placeOf(i)) - 1)}
    \cup {[path |-> pathOf(placeOf(i)),
           kind |-> IF archive[i].type = "dir" THEN "dir" ELSE "file"]}

\* the files and directories the archive read so far stands for
ExpectedFiles == UNION {broughtBy(i) : i \in {j \in 1 .. Len(archive) : Kept(j)}}

\* the contents the archive read so far stands for: each file holds all the
\* bytes of the last regular-file header of its place
ExpectedData ==
    {[path |-> pathOf(placeOf(i)), entry |-> i, n |-> entrySizes[i]] :
        i \in {j \in 1 .. Len(archive) :
                 /\ Kept(j) /\ archive[j].type = "reg"
                 /\ \A k \in (j + 1) .. Len(archive) :
                      (Kept(k) /\ archive[k].type = "reg") => placeOf(k) # placeOf(j)}}

\* C19: as long as no step of the walk has failed, the files and directories
\* in the destination and the contents of the files are a function of the
\* archive read so far, the filter set and the destination root alone: two
\* walks of the same archive into fresh destinations cannot differ, whatever
\* name the ranging over the filter map yields.
C19_ExtractionIsAFunctionOfTheArchive ==
    (exState \in {"walking", "done"} \/ (exState = "failed" /\ exErr = "reading tar entry")) =>
       /\ files = ExpectedFiles
       /\ data = ExpectedData

\* C19 witness: with the filter set {world, world/other} the walk of
\* world/other/b.txt (two bytes), world/a.txt, world/other/b.txt (one byte)
\* has ended; the map yielded world/other for the first header and world for
\* the third, and world/other/b.txt holds the one byte of the third
C19_Witness ==
    /\ exState = "done"
    /\ worlds = {World, Nested}
    /\ archive = << Entry(P(<<World, Other, FileB>>), "reg"), Entry(P(<<World, FileA>>), "reg"),
                    Entry(P(<<World, Other, FileB>>), "reg") >>
    /\ entrySizes = << Int64(0, 2), Int64(0, 1), Int64(0, 1) >>
    /\ extracted[Nested] = 1
    /\ extracted[World] = 2
    /\ [path |-> outputDir \o <<"/">> \o P(<<World, Other, FileB>>), entry |-> 3, n |-> Int64(0, 1)] \in data
    /\ Cardinality(data) = 2

\* the download was started and has not got past the copy with success
CopyOrRenameFailed == cliResult \in {"err:writing jar file", "err:renaming temp file"}

lastEntry == archive[Len(archive)]

C22_ErrorEndsWalk ==
    /\ exErr # "nil" <=> exState = "failed"
    /\ exErr \in {"nil", "creating gzip reader", "reading tar entry", ErrMkdir, ErrParent, ErrWrite,
                  ErrLimit}
    /\ exState \in {"start", "walking", "done", "failed"}
    /\ exState = "start" => archive = <<>> /\ files = {}
    /\ exErr = "creating gzip reader" => archive = <<>> /\ files = {}
    /\ exErr = ErrMkdir => Kept(Len(archive)) /\ lastEntry.type = "dir"
    /\ exErr \in {ErrParent, ErrWrite, ErrLimit} => Kept(Len(archive)) /\ lastEntry.type = "reg"

C22_NothingAfterTheEnd ==
    exState \in {"failed", "done"} =>
       UNCHANGED <<archive, entrySizes, files, data, extracted, exState, exErr>>

\* C22: the walk of extractWorlds ends at the end of the stream or at the
\* first error: a gzip header that cannot be read, a tar stream that cannot
\* be read, a directory or a file that cannot be written make extractWorlds
\* fail at once with the error of that stage (the write errors with the
\* header just read), and after the end, failed or not, no header is read
\* and nothing is written.
C22_WalkEndsAtFirstError == []C22_ErrorEndsWalk /\ [][C22_NothingAfterTheEnd]_vars

\* C22 witness: world/a.txt was extracted, then the directory for
\* other/b.txt could not be made: the walk failed there with two headers read
C22_Witness ==
    /\ exState = "failed"
    /\ exErr = ErrParent
    /\ worlds = {World, Other}
    /\ archive = << Entry(P(<<World, FileA>>), "reg"), Entry(P(<<Other, FileB>>), "reg") >>
    /\ extracted = (World :> 1 @@ Other :> 0)
    /\ Cardinality(data) = 1

\* C23 as claimed: no worker is started before the file has been truncated
\* to the total size; a failed truncation ends the download without any
\* range request; and from the truncation on, while workers run and after,
\* the length of the file stays the total size.
C23_FileKeepsItsLength ==
    /\ spawned > 0 => pc \notin {"start", "downloadAutoExtract", "downloadParallelExtract",
                                "parallelDownloadAndExtract", "downloadParallel"}
    /\ (pc = "downloadFailed" /\ spawned = 0) => requests = 0 /\ fileLen = 0
    /\ (spawned > 0 \/ pc = "spawn") => fileLen = contentLength

\* C25 as claimed: every chunk handed to a worker is non-empty and lies
\* inside the file, 0 <= start <= end < total size, for every size and worker
\* count that the selector can pass to downloadParallel.
C25_ChunksWellFormed ==
    \A i \in 1 .. Len(plan) :
       /\ 0 <= plan[i].start
       /\ plan[i].start <= plan[i].end
       /\ plan[i].end < contentLength

\* the bytes of the file the workers have written, all together
RECURSIVE SumWrote(_)
SumWrote(ws) == IF ws = {} THEN 0
                ELSE LET w == CHOOSE x \in ws : TRUE IN wrote[w] + SumWrote(ws \ {w})

\* a step of the reporter: it loads the counter or it returns
ReporterStep == got' # got \/ (reporter = "running" /\ reporter' = "stopped")

\* a reporter step changes nothing but the reporter's own state
C24_ReporterOnlyReads == ReporterStep => UNCHANGED <<pvars, fvars, dvars, evars, cvars, progressDone>>

\* what is requested and written follows from the plan and from each worker's
\* own bytes, and the result from the workers' errors
C24_NoControlByCounter ==
    /\ \A i \in 1 .. Len(plan) :
         /\ plan[i].start = chunkStart(contentLength, numWorkers, i - 1)
         /\ plan[i].end = chunkEnd(contentLength, numWorkers, i - 1)
    /\ \A w \in Started : wpc[w] = "read" => offset[w] = wStart(w) + wrote[w]
    /\ pc = "closeTemp" => \A w \in Started : wErr[w] = "nil"
    /\ pc = "downloadFailed" /\ spawned > 0 => \E w \in Started : wErr[w] # "nil"
    /\ got \in {-1} \cup 0 .. downloaded

\* C24 as claimed: the counter only grows, it equals at every moment the
\* number of bytes the workers have written, reporter steps change nothing
\* else, and ranges, writes and result do not depend on the counter.
C24_CounterEqualsBytesWritten ==
    /\ [](downloaded = SumWrote(DOMAIN wrote) /\ C24_NoControlByCounter)
    /\ [][downloaded' >= downloaded /\ C24_ReporterOnlyReads]_vars

\* a WriteAt has failed in this step
WriteFails == \E w \in DOMAIN wErr : wErr'[w] = "write" /\ wErr[w] # "write"

C24_CountsCompletedWrites ==
    /\ downloaded' >= downloaded
    /\ downloaded' - downloaded =
         IF WriteFails THEN 0 ELSE SumWrote(DOMAIN wrote)' - SumWrote(DOMAIN wrote)
    /\ C24_ReporterOnlyReads

C24_CounterBelowBytesWritten ==
    /\ downloaded <= SumWrote(DOMAIN wrote)
    /\ (\A w \in DOMAIN wErr : wErr[w] # "write") => downloaded = SumWrote(DOMAIN wrote)
    /\ C24_NoControlByCounter

\* C24 amended: the counter only grows; every WriteAt that succeeds adds the
\* bytes it has written, a WriteAt that fails after writing a part of its
\* buffer adds nothing, so that the counter is the number of bytes written by
\* the writes that succeeded and never more than the bytes written; a step
\* of the reporter changes nothing but what the reporter has loaded; and
\* ranges, write offsets and the result follow from the plan, each worker's
\* own bytes and the workers' errors, whatever the interleaving.
C24_CounterCountsCompletedWrites ==
    /\ []C24_CounterBelowBytesWritten
    /\ [][C24_CountsCompletedWrites]_vars

\* C24 witness: two workers have written one byte each, the reporter has
\* loaded the counter between the two writes, and a WriteAt of the second
\* worker has then failed after one more byte reached the file
C24_Witness ==
    /\ numWorkers = 2
    /\ got = 1
    /\ downloaded = 2
    /\ \E w \in Started : wErr[w] = "write"
    /\ SumWrote(DOMAIN wrote) = 3

\* the reporter is not running: it was never started or it has returned
ReporterGone == reporter \in {"none", "stopped"}

ParallelFailed ==
    \/ firstErr # NoErr /\ dpReturned
    \/ pc = "downloadFailed"
    \/ result = "err:parallel download"

C26_FailureIsReturned ==
    (mode = "auto" /\ path = "parallel") =>
       /\ pc # "downloadStreamExtract"
       /\ result \notin {"err:get", "err:status"}
       /\ ParallelFailed =>
            /\ pc \in {"downloadFailed", "unwind", "returned"}
            /\ pc # "downloadFailed" => result = "err:parallel download"
            /\ tmpHandle # "ro"
            /\ exState = "idle" /\ files = {}
       /\ (ParallelFailed /\ pc = "returned") => ~tmpExists

C26_NoWayBack ==
    /\ path = "parallel" => path' = "parallel"
    /\ (path = "parallel" /\ pc = "downloadFailed" /\ pc' # pc) =>
          pc' = "unwind" /\ result' = "err:parallel download"

\* C26: in auto mode, once the parallel path is chosen, it stays chosen; a
\* failure of the parallel download (the truncation or any worker) makes the
\* call return the wrapped error "parallel download: ...": no single-stream
\* download is started, the archive is never opened for extraction, nothing
\* is extracted, and the temp file is gone at the return.
C26_NoFallbackAfterParallelFailure == []C26_FailureIsReturned /\ [][C26_NoWayBack]_vars

\* C26 witness: auto mode chose parallel for a 64 MiB resource, a worker
\* failed after the other had written its whole chunk, and the call has
\* returned the error
C26_Witness ==
    /\ mode = "auto"
    /\ path = "parallel"
    /\ contentLength = minParallelSize
    /\ numWorkers = 2
    /\ \E w \in Started : wrote[w] = wLen(w) /\ wErr[w] = "nil"
    /\ firstErr # NoErr
    /\ pc = "returned"
    /\ result = "err:parallel download"

\* a header was read in this step
HeaderRead == Len(archive') = Len(archive) + 1

\* the header read in this step
newEntry == archive'[Len(archive')]

C28_OtherTypeStep ==
    (HeaderRead /\ newEntry.type \notin {"dir", "reg"}) =>
       /\ UNCHANGED <<files, data, extracted, warnings>>
       /\ exErr' = "nil"
       /\ exState' = "walking"

\* links and special files leave no trace in the tree or the tally
C28_OtherTypesLeaveNoTrace ==
    /\ \A f \in files : \E i \in 1..Len(archive) :
         archive[i].type \in {"dir", "reg"} /\ Kept(i)
    /\ \A d \in data : archive[d.entry].type = "reg"
    /\ (\A i \in 1..Len(archive) : archive[i].type \notin {"dir", "reg"}) =>
         files = {} /\ data = {} /\ \A w \in worlds : extracted[w] = 0

\* C28: a header whose type is neither directory nor regular file changes
\* nothing: the step that reads it leaves the tree, the file contents and
\* the tally as they were and the walk goes on without an error, whatever
\* the operating system would have answered and even when its path matches
\* a filter name and lies inside the root; every path of the tree and every
\* file body comes from a directory or regular-file header.
C28_OtherTypesChangeNothing == []C28_OtherTypesLeaveNoTrace /\ [][C28_OtherTypeStep]_vars

\* C28 witness: world/a.txt was read as a symlink, matching the filter name
\* and inside the root, and then the end of the stream: nothing was made,
\* nothing counted, the name is reported as not found
C28_Witness ==
    /\ exState = "done"
    /\ worlds = {World}
    /\ archive = << Entry(P(<<World, FileA>>), "symlink") >>
    /\ matchWorld(archive[1].name, worlds) = {World}
    /\ insideRoot(outputDir, targetPath(outputDir, archive[1].name))
    /\ files = {}
    /\ data = {}
    /\ extracted[World] = 0
    /\ warnings = {World}

\* the headers read so far that were written and counted for the name w: the
\* regular files kept that match w, but for a last one whose writing failed
CountedFor(w) ==
    {i \in 1 .. Len(archive) :
        /\ Kept(i)
        /\ archive[i].type = "reg"
        /\ w \in matchingWorlds(archive[i].name, worlds)
        /\ ~(i = Len(archive) /\ exErr \in {ErrParent, ErrWrite, ErrLimit})}

\* C29: with a filter set made by ResolveWorlds ({name} or {name,
\* name_nether, name_the_end}, for a plain name, a name with a slash, the
\* default name and a name that ends in _nether), every entry path matches
\* at most one filter name: matchWorld has one value to return whatever the
\* order in which the map is ranged over, and the tally of each name is the
\* number of files written among the headers matching that name.
C29_AtMostOneNameMatches ==
    /\ worlds \in ResolvedWorldSets
    /\ Cardinality(worlds) \in {1, 3}
    /\ \A e \in ResolvedEntries :
         /\ Cardinality(matchingWorlds(e.name, worlds)) <= 1
         /\ Cardinality(matchWorld(e.name, worlds)) = 1
    /\ \A w \in worlds : extracted[w] = Cardinality(CountedFor(w))

\* C29 witness: with {world, world_nether, world_the_end} one file of each
\* folder was read, each counted for its own name only
C29_Witness ==
    /\ exState = "done"
    /\ Cardinality(worlds) = 3
    /\ World \in worlds
    /\ Len(archive) = 3
    /\ \A w \in worlds : extracted[w] = 1
    /\ \A i \in 1 .. 3 : Cardinality(matchingWorlds(archive[i].name, worlds)) = 1

====
